---- MODULE Spec2Model ----
(***************************************************************************)
(* A model of abc2xml.py (ABC notation -> MusicXML): the measure rewrite   *)
(* passes run by the grammar's parse actions, the tie table and slur stack *)
(* of the note emitter, the part merger and the batch driver.              *)
(***************************************************************************)
EXTENDS Integers, Sequences, FiniteSets, TLC

(***************************************************************************)
(* Bounds of the model.                                                    *)
(***************************************************************************)
\* largest size of a measure: its notes, rests, markers and chord members
MaxTokens == 3
\* largest number of voices of a tune
MaxVoices == 2
\* largest number of measures of a voice
MaxMeasures == 2
\* largest number of elements (notes, chords, decorations) emitted in a measure
MaxElems == 3
\* largest number of slur starts pending or open
MaxSlurs == 2
\* largest number of parts merged into one stave
MaxStaveParts == 3
\* largest number of measures, overlays included, mkMeasure makes for the
\* voices of a stave
MaxMsrs == 4
\* largest number of tunes the batch driver converts in one run
MaxTunes == 2
\* largest length of a voice body handed to the voice grammar
MaxChars == 3

VARIABLES
    maat,       \* the measure being parsed: t[0] of the measure's Group
    maatIn,     \* the measure as parsed, before doMaat ran (history)
    maatBrk,    \* the measure after convertBroken, before convertChord (history)
    brkCalls,   \* the doBroken calls of convertBroken, in order (history)
    mpc         \* "parsing", "done" (doMaat returned) or "raised" (ZeroDivisionError)

maatVars == <<maat, maatIn, maatBrk, brkCalls, mpc>>

VARIABLES
    ties,        \* s.ties: the open ties, one per pitch tuple
    slurstack,   \* s.slurstack: the numbers of the open slurs
    slurbeg,     \* s.slurbeg: the slurs to start on the next note
    overlayVnum, \* s.overlayVnum: the overlay number of the measure being emitted
    ntup,        \* s.ntup: tuplet notes remaining, -1 outside a tuplet
    trem,        \* s.trem: bars of the tremolo sequence being emitted, 0 if none
    tupnts,      \* s.tupnts is not empty
    vce,         \* the number of voices mkPart was called for in this tune
    msr,         \* the number of the measure being emitted
    nelm,        \* the number of elements emitted in the measure
    epc,         \* "idle" (between voices), "voice" (in mkPart) or "end" (tune done)
    last         \* what doNotations did with the slur ends of the last note (history)

emitVars == <<ties, slurstack, slurbeg, overlayVnum, ntup, trem, tupnts,
              vce, msr, nelm, epc, last>>

VARIABLES
    staveMsrs,  \* the measures with one number of the parts of a stave, p1 first
    m1,         \* p1[im]: the measure of the first part, with what was merged in
    nmerged,    \* the number of parts merged into m1, p1 itself included
    rOpt,       \* the option to merge measures that hold only rests
    mhist,      \* the last mergeMeasure call: m1 before, m2, m1 after (history)
    mergepc     \* "idle", "merging" or "raised" (AttributeError)

mergeVars == <<staveMsrs, m1, nmerged, rOpt, mhist, mergepc>>

VARIABLES
    parts,      \* the parts mkPart has returned, in voice order
    part,       \* the part mkPart is building: its measures
    overlay,    \* the last measure made ended with '&'
    ovnum,      \* s.overlayVnum while mkPart builds the part
    nmsre,      \* the number of measures mkMeasure has made
    p1,         \* mergePartList: the first part, with what was merged in
    np,         \* the number of parts in p1
    phist,      \* the last merge: its kind and the maxima before it (history)
    isGrand,    \* is_grand of the mergeParts call
    mnum,       \* the number attributes of the measures: of part, of each of
                \* parts and of p1, and the measures mkPart has made for part
    partpc      \* "idle", "part" (in mkPart), "merging" or "raised"

partVars == <<parts, part, overlay, ovnum, nmsre, p1, np, phist, isGrand, mnum,
              partpc>>

VARIABLES
    uSyms,      \* MusicXml.uSyms: the class's dictionary of user symbols
    pageFmtDef, \* MusicXml.pageFmtDef: the class's list of page defaults
    usrSyms,    \* s.usrSyms: the name of the dictionary it is bound to
    pageFmtAbc, \* s.pageFmtAbc: "empty" (a list of its own) or the name of
                \* the list it is bound to
    staveDefs,  \* s.staveDefs: the %%score / %%staves directives collected
    tune,       \* the tune convert was called with
    itune,      \* the tune loop's index
    doc,        \* the document convert wrote for the tune, or NoDoc
    reported,   \* parse printed the offending line and the caret line
    before,     \* uSyms and pageFmtDef when convert was called (history)
    bpc         \* where the tune loop is

batchVars == <<uSyms, pageFmtDef, usrSyms, pageFmtAbc, staveDefs, tune, itune,
               doc, reported, before, bpc>>

VARIABLES
    text,       \* the voice body given to abc_voice.parseString
    loc,        \* the grammar's position in text (from 1)
    mstart,     \* where the measure being tried starts
    elems,      \* the tokens of the measure being tried
    tree,       \* the measures matched so far
    diags,      \* the diagnostics errorWarn has printed
    ppc         \* "idle", "measure", "noBarMeasure" or "done"

parseVars == <<text, loc, mstart, elems, tree, diags, ppc>>

VARIABLES
    unitLcur,   \* s.unitLcur: the unit length of the current voice
    mdur,       \* s.mdur: the duration of one measure
    python3,    \* the interpreter is Python 3 (round rounds ties to even)
    xnt,        \* the last note mkNote emitted: what went in and what came out
    dpc         \* "idle" before the interpreter starts, then "voice"

durVars == <<unitLcur, mdur, python3, xnt, dpc>>

VARIABLES
    fieldmap,   \* the fields given to doFields, in the order the map yields them
    att,        \* the children of the attributes element doFields made
    curClef,    \* s.curClef: the clef doClef saw last
    fpc         \* "fields" while the map is filled, "done" after doFields

fieldVars == <<fieldmap, att, curClef, fpc>>

VARIABLES
    body,       \* the text after the header, as a sequence of pieces
    voices,     \* what splitHeaderVoices returns: (id, text) per voice
    hdr,        \* the pieces of the body splitHeaderVoices adds to the header
    ps,         \* parse: per voice its id and whether it got the placeholder
    scoreParts, \* the parts of the score, by voice id
    rejected,   \* the number of placeholder fields the emitter has rejected
    spc         \* "idle", "split", "parsed", "done" or "raised"

splitVars == <<body, voices, hdr, ps, scoreParts, rejected, spc>>

VARIABLES
    keyAlts,    \* s.keyAlts: step -> alteration implied by the key
    msreAlts,   \* s.msreAlts: step -> alteration set earlier in the measure
    tieAlts,    \* s.ties as mkPitch reads it: pitch -> (alteration, overlay)
    pitchOvl,   \* s.overlayVnum while the pitches are made
    pnote,      \* the last note: what mkPitch met and the alteration it gave
    pvce,       \* the number of voices started
    pmsr,       \* the number of the measure being emitted
    pnelm,      \* the number of notes emitted in this measure
    pitpc       \* "idle" between voices, "voice" inside mkPart

pitchVars == <<keyAlts, msreAlts, tieAlts, pitchOvl, pnote, pvce, pmsr, pnelm, pitpc>>

VARIABLES
    tmnum,      \* s.tmnum: the actual-notes of the time modification
    tmden,      \* s.tmden: the normal-notes of the time modification
    tupCnt,     \* s.ntup while tuplets are emitted: the tuplet notes remaining
    tupBuf,     \* s.tupnts: the real durations of the tuplet notes collected
    telems,     \* the elements of the measure so far: tuplet-starts and notes
    tevent,     \* the element handled last: "", "tup" or "note"
    tmsr,       \* the number of the measure being emitted
    tpc         \* "idle" before the first measure, then "voice"

tupVars == <<tmnum, tmden, tupCnt, tupBuf, telems, tevent, tmsr, tpc>>

VARIABLES
    curVolta,   \* s.curVolta: the number of the open volta, "" if none is open
    vpart,      \* the part: its measures, each the sequence of its barlines
    prevmsre,   \* s.prevmsre: "none", "last" (the last measure of the part) or
                \* "loose" (a measure element that is not in the part)
    loose,      \* the barlines of the measure element that is not in the part
    voverlay,   \* mkPart's overlay: the previous measure ended with '&'
    vmsr,       \* the number of measures mkMeasure has made for the voice
    vvce,       \* the number of voices started
    vpc         \* "idle" between voices, "voice" inside mkPart

voltaVars == <<curVolta, vpart, prevmsre, loose, voverlay, vmsr, vvce, vpc>>

VARIABLES
    vdefs,      \* vdefs: voice id -> (name, subname, voice definition), for
                \* the voices the tune defines
    names0,     \* vdefs as voiceNamesAndMaps made it (history)
    scoreDef,   \* the parse tree of s.staveDefs [0]: the parts of the directive
    staves,     \* s.staves: [[vid] for each staff]
    grands,     \* s.grands: [[staff id] for each xml part]
    groups,     \* s.groups: voice ids with the brace and bracket marks
    accepts,    \* mkGrand: accept or us[0] == '{*', for each grand in turn
    gNstaves,   \* s.gNstaves: voice id -> number of staves of its part
    xmlParts,   \* parts: each part as the voice ids merged into it
    gpc         \* "tune", "staved" (after parseStaveDef) or "merged"

staveVars == <<vdefs, names0, scoreDef, staves, grands, groups, accepts,
               gNstaves, xmlParts, gpc>>

VARIABLES
    percMap,    \* s.percMap: (part id, accidental, note, octave) -> entry
    pMapFound,  \* s.pMapFound: an I:percmap has been read
    percVoice,  \* s.percVoice: the percussion map is switched on
    percClef,   \* s.curClef of the percussion voice
    percPid,    \* s.pid: the part of the current voice, "" in the header
    unpitched,  \* the unpitched notes made so far, with what mkNote gets
    percInfos,  \* the keys of the 'no I:percmap for' messages, in order
    percpc      \* "header" or "voice"

percVars == <<percMap, pMapFound, percVoice, percClef, percPid, unpitched,
              percInfos, percpc>>

VARIABLES
    slurDoc,    \* the slurs of the voice as the document has them (history)
    tieAt,      \* per pitch the note that carries the tie start (history)
    notePos     \* the number of notes emitted in the voice (history)

slurVars == <<slurDoc, tieAt, notePos>>

VARIABLES
    bnotes,     \* the notes of the measure being emitted, with their beams
    prevNote,   \* s.prevNote: the place in bnotes of the last beamed note, 0 for None
    grcbbrk,    \* s.grcbbrk: a beam break was met in or before a grace sequence
    beampc         \* "measure" while the measure is emitted, "ended" after stopBeams

beamVars == <<bnotes, prevNote, grcbbrk, beampc>>

VARIABLES
    hdrDirs,    \* the score/staves directives of the header, as written
    vbody,      \* the body in document order: the voice of each stretch and
                \* its inline score/staves directive, "" for none
    dropMsgs,   \* the directives named in a 'dropped' message of parseStaveDef
    dirpc       \* "header", "body", "named", "staved" or "emitted"

dirVars == <<hdrDirs, vbody, dropMsgs, dirpc>>

VARIABLES
    midiInst,   \* s.midiInst in the order of its keys: the instruments used
    noteTags,   \* the instrument tags of the notes: part id and instrument id
    mvoices,    \* the number of voices emitted
    mparts,     \* vidsnew: the ids of the merged parts
    used,       \* midiInst and noteTags when reduceMids was called (history)
    midpc       \* "voices", "reduced" or "raised"

midVars == <<midiInst, noteTags, mvoices, mparts, used, midpc>>

VARIABLES
    xtype       \* the type of the last note mkNote emitted: the key of typeMap,
                \* the dots, whether it is a grace note and whether the
                \* 'illegal duration' message was given

typeVars == <<xtype>>

VARIABLES
    brkMaten,   \* maten: the measures of the voice, lists of parsed objects
    brkPart,    \* part: the measures mkPart made, lists of elements
    brkSrc,     \* for each measure of part, the measures of maten it was made of
    linebrk,    \* s.linebrk: the next measure should start with a line break
    brkpc       \* "tune" while the voice is read, "done" after mkPart

brkVars == <<brkMaten, brkPart, brkSrc, linebrk, brkpc>>

VARIABLES
    lyrdash,    \* s.lyrdash: the lyric numbers with an open word
    lnotes,     \* the notes before the next lyric block that mkNote has not
                \* emitted yet, with the objects alignLyr appended
    lastObjs,   \* n.objs of the last note
    lyrEl,      \* the lyric elements of the last note: number and syllabic
    dashWas,    \* s.lyrdash before the last note
    lastSyl,    \* for each lyric number, the last syllabic emitted in the voice
    sylWas      \* lastSyl before the last note

lyrVars == <<lyrdash, lnotes, lastObjs, lyrEl, dashWas, lastSyl, sylWas>>

VARIABLES
    pause_position, \* self.pause_position
    plStatus,       \* fluid_player_get_status: 0 = ready, 1 = playing, 2 = finished
    plTick,         \* fluid_player_get_current_tick
    playlist,       \* the player holds a file
    lastCall,       \* the method of FluidSynth2Player that returned last
    prevCall,       \* the one before it
    pausedAt,       \* the tick at which Pause was called last
    seekPos         \* the tick the last Play sought to

playerVars == <<pause_position, plStatus, plTick, playlist, lastCall, prevCall,
                pausedAt, seekPos>>

vars == <<maatVars, emitVars, mergeVars, partVars, batchVars, parseVars,
          durVars, fieldVars, splitVars, pitchVars, tupVars, voltaVars,
          staveVars, percVars, slurVars, beamVars, dirVars, midVars,
          typeVars, brkVars, lyrVars, playerVars>>

\* what the actions of one component leave alone: the other components
notMaat == <<emitVars, mergeVars, partVars, batchVars, parseVars, durVars,
             fieldVars, splitVars, pitchVars, tupVars, voltaVars, staveVars,
             percVars, slurVars, beamVars, dirVars, midVars, typeVars,
             brkVars, lyrVars, playerVars>>
notEmit == <<maatVars, mergeVars, partVars, batchVars, parseVars, durVars,
             fieldVars, splitVars, pitchVars, tupVars, voltaVars, staveVars,
             percVars, slurVars, beamVars, dirVars, midVars, typeVars,
             brkVars, lyrVars, playerVars>>
notMerge == <<maatVars, emitVars, partVars, batchVars, parseVars, durVars,
              fieldVars, splitVars, pitchVars, tupVars, voltaVars, staveVars,
              percVars, slurVars, beamVars, dirVars, midVars, typeVars,
              brkVars, lyrVars, playerVars>>
notPart == <<maatVars, emitVars, mergeVars, batchVars, parseVars, durVars,
             fieldVars, splitVars, pitchVars, tupVars, voltaVars, staveVars,
             percVars, slurVars, beamVars, dirVars, midVars, typeVars,
             brkVars, lyrVars, playerVars>>
notBatch == <<maatVars, emitVars, mergeVars, partVars, parseVars, durVars,
              fieldVars, splitVars, pitchVars, tupVars, voltaVars, staveVars,
              percVars, slurVars, beamVars, dirVars, midVars, typeVars,
              brkVars, lyrVars, playerVars>>
notParse == <<maatVars, emitVars, mergeVars, partVars, batchVars, durVars,
              fieldVars, splitVars, pitchVars, tupVars, voltaVars, staveVars,
              percVars, slurVars, beamVars, dirVars, midVars, typeVars,
              brkVars, lyrVars, playerVars>>
notDur == <<maatVars, emitVars, mergeVars, partVars, batchVars, parseVars,
            fieldVars, splitVars, pitchVars, tupVars, voltaVars, staveVars,
            percVars, slurVars, beamVars, dirVars, midVars, typeVars,
            brkVars, lyrVars, playerVars>>
notField == <<maatVars, emitVars, mergeVars, partVars, batchVars, parseVars,
              durVars, splitVars, pitchVars, tupVars, voltaVars, staveVars,
              percVars, slurVars, beamVars, dirVars, midVars, typeVars,
              brkVars, lyrVars, playerVars>>
notSplit == <<maatVars, emitVars, mergeVars, partVars, batchVars, parseVars,
              durVars, fieldVars, pitchVars, tupVars, voltaVars, staveVars,
              percVars, slurVars, beamVars, dirVars, midVars, typeVars,
              brkVars, lyrVars, playerVars>>
notPitch == <<maatVars, emitVars, mergeVars, partVars, batchVars, parseVars,
              durVars, fieldVars, splitVars, tupVars, voltaVars, staveVars,
              percVars, slurVars, beamVars, dirVars, midVars, typeVars,
              brkVars, lyrVars, playerVars>>
notTup == <<maatVars, emitVars, mergeVars, partVars, batchVars, parseVars,
            durVars, fieldVars, splitVars, pitchVars, voltaVars, staveVars,
            percVars, slurVars, beamVars, dirVars, midVars, typeVars,
            brkVars, lyrVars, playerVars>>
notVolta == <<maatVars, emitVars, mergeVars, partVars, batchVars, parseVars,
              durVars, fieldVars, splitVars, pitchVars, tupVars, staveVars,
              percVars, slurVars, beamVars, dirVars, midVars, typeVars,
              brkVars, lyrVars, playerVars>>
notStave == <<maatVars, emitVars, mergeVars, partVars, batchVars, parseVars,
              durVars, fieldVars, splitVars, pitchVars, tupVars, voltaVars,
              percVars, slurVars, beamVars, dirVars, midVars, typeVars,
              brkVars, lyrVars, playerVars>>
notPerc == <<maatVars, emitVars, mergeVars, partVars, batchVars, parseVars,
             durVars, fieldVars, splitVars, pitchVars, tupVars, voltaVars,
             staveVars, slurVars, beamVars, dirVars, midVars, typeVars,
             brkVars, lyrVars, playerVars>>
notSlur == <<maatVars, emitVars, mergeVars, partVars, batchVars, parseVars,
             durVars, fieldVars, splitVars, pitchVars, tupVars, voltaVars,
             staveVars, percVars, beamVars, dirVars, midVars, typeVars,
             brkVars, lyrVars, playerVars>>
\* what the slurs of a voice leave alone
notEmitSlur == <<maatVars, mergeVars, partVars, batchVars, parseVars,
                 durVars, fieldVars, splitVars, pitchVars, tupVars,
                 voltaVars, staveVars, percVars, beamVars, dirVars, midVars,
                 typeVars, brkVars, lyrVars, playerVars>>
notBeam == <<maatVars, emitVars, mergeVars, partVars, batchVars, parseVars,
             durVars, fieldVars, splitVars, pitchVars, tupVars, voltaVars,
             staveVars, percVars, slurVars, dirVars, midVars, typeVars,
             brkVars, lyrVars, playerVars>>
\* what the directives of a tune leave alone, s.staveDefs and the stave
\* mappings apart
notDir == <<maatVars, emitVars, mergeVars, partVars, parseVars, durVars,
            fieldVars, splitVars, pitchVars, tupVars, voltaVars, percVars,
            slurVars, beamVars, midVars, typeVars, brkVars, lyrVars,
            playerVars>>
notMid == <<maatVars, emitVars, mergeVars, partVars, batchVars, parseVars,
            durVars, fieldVars, splitVars, pitchVars, tupVars, voltaVars,
            staveVars, percVars, slurVars, beamVars, dirVars, typeVars,
            brkVars, lyrVars, playerVars>>
\* what the type of a note leaves alone, the duration apart
notType == <<maatVars, emitVars, mergeVars, partVars, batchVars, parseVars,
             fieldVars, splitVars, pitchVars, tupVars, voltaVars, staveVars,
             percVars, slurVars, beamVars, dirVars, midVars, brkVars,
             lyrVars, playerVars>>
notBrk == <<maatVars, emitVars, mergeVars, partVars, batchVars, parseVars,
            durVars, fieldVars, splitVars, pitchVars, tupVars, voltaVars,
            staveVars, percVars, slurVars, beamVars, dirVars, midVars,
            typeVars, lyrVars, playerVars>>
notLyr == <<maatVars, emitVars, mergeVars, partVars, batchVars, parseVars,
            durVars, fieldVars, splitVars, pitchVars, tupVars, voltaVars,
            staveVars, percVars, slurVars, beamVars, dirVars, midVars,
            typeVars, brkVars, playerVars>>
notPlayer == <<maatVars, emitVars, mergeVars, partVars, batchVars, parseVars,
               durVars, fieldVars, splitVars, pitchVars, tupVars, voltaVars,
               staveVars, percVars, slurVars, beamVars, dirVars, midVars,
               typeVars, brkVars, lyrVars>>

(***************************************************************************)
(* Parse tree nodes (pObj).  One record shape for every node:              *)
(*   name    the pObj name: "note", "rest", "chord", "broken"              *)
(*   dur     the (numerator, denominator) of the node's dur child          *)
(*   brk     the literal of a broken-rhythm marker                         *)
(*   objs    the ordered members of a chord                                *)
(*   tie     the node has a tie child                                      *)
(*   slurs   the number of slur ends in the node's slurs child             *)
(*   chord   the note is labelled as a secondary chord note                *)
(*   pitch   the pitch of a note, "" where the model does not tell pitches  *)
(*   pitches the pitches of the chord, recorded in its first note           *)
(*   grace   the note is flagged as a grace note                           *)
(***************************************************************************)
pObj(name, dur, brk, objs, tie, slurs) ==
    [name |-> name, dur |-> dur, brk |-> brk, objs |-> objs, tie |-> tie,
     slurs |-> slurs, chord |-> FALSE, pitch |-> "", pitches |-> <<>>,
     grace |-> FALSE]

RECURSIVE Pow2(_)
Pow2(k) == IF k = 0 THEN 1 ELSE 2 * Pow2(k - 1)

\* note_length parse action: dur = (t[0], (t[2] << len (t[1])) >> 1)
note_length(num, slashes, den) == <<num, (den * Pow2(slashes)) \div 2>>

\* the default of Optional (number, 2)
DefaultDen == 2

\* note lengths as written, <<number, slashes, number>>:
\* "", "2", "/", "2/2", "/3", "0", "0/0", "/0"
WrittenLengths ==
    { <<1, 0, DefaultDen>>, <<2, 0, DefaultDen>>, <<1, 1, DefaultDen>>,
      <<2, 1, 2>>, <<1, 1, 3>>, <<0, 0, DefaultDen>>, <<0, 1, 0>>, <<1, 1, 0>> }

NoteLengths == { note_length(w[1], w[2], w[3]) : w \in WrittenLengths }

\* the lengths written as nothing, as "/" and as "2"
PlainLengths ==
    { note_length(1, 0, DefaultDen), note_length(1, 1, DefaultDen),
      note_length(2, 0, DefaultDen) }

\* the chord suffixes written as nothing, as "/", as "2/2" and as "0/0"
ChordLengths ==
    { note_length(1, 0, DefaultDen), note_length(1, 1, DefaultDen),
      note_length(2, 1, 2), note_length(0, 1, 0) }

\* broken = Combine (OneOrMore ('<') | OneOrMore ('>')); three or more give up
BrokenSyms == {">", "<", ">>", "<<", ">>>"}

StemNames == {"note", "chord", "rest"}

(***************************************************************************)
(* simplify: divide a and b by their greatest common divisor.  With        *)
(* a = b = 0 the loop leaves a = 0 and x // a raises ZeroDivisionError.    *)
(***************************************************************************)
RECURSIVE gcdLoop(_, _)
gcdLoop(a, b) == IF b = 0 THEN a ELSE gcdLoop(b, a % b)

simplifyRaises(a, b) == gcdLoop(a, b) = 0

\* a simplify that returns its arguments undivided
simplifyUndivided(a, b) == <<a, b>>

simplify(a, b) == <<a \div gcdLoop(a, b), b \div gcdLoop(a, b)>>

(***************************************************************************)
(* doBroken: the factors of the two stems for each marker; a marker of     *)
(* three or more characters changes nothing ("give up").                   *)
(***************************************************************************)
\* a doBroken whose '>' gives the second stem a quarter instead of a half
brokenFactorsQuarter(brk) ==
    CASE brk = ">"  -> <<3, 2, 1, 4>>
      [] brk = "<"  -> <<1, 2, 3, 2>>
      [] brk = ">>" -> <<7, 4, 1, 4>>
      [] brk = "<<" -> <<1, 4, 7, 4>>
      [] OTHER      -> <<1, 1, 1, 1>>

brokenFactors(brk) ==
    CASE brk = ">"  -> <<3, 2, 1, 2>>
      [] brk = "<"  -> <<1, 2, 3, 2>>
      [] brk = ">>" -> <<7, 4, 1, 4>>
      [] brk = "<<" -> <<1, 4, 7, 4>>
      [] OTHER      -> <<1, 1, 1, 1>>

brokenKnown(brk) == brk \in {">", "<", ">>", "<<"}

doBrokenRaises(d1, brk, d2) ==
    LET f == brokenFactors(brk) IN
    /\ brokenKnown(brk)
    /\ \/ simplifyRaises(f[1] * d1[1], f[2] * d1[2])
       \/ simplifyRaises(f[3] * d2[1], f[4] * d2[2])

\* the new durations <<prev.dur.t, x.dur.t>>
doBroken(d1, brk, d2) ==
    LET f == brokenFactors(brk) IN
    IF brokenKnown(brk)
    THEN <<simplify(f[1] * d1[1], f[2] * d1[2]), simplify(f[3] * d2[1], f[4] * d2[2])>>
    ELSE <<d1, d2>>

(***************************************************************************)
(* convertBroken: one scan of the measure.  prev is the index of the       *)
(* remembered stem (0 = None), brk the pending marker ("" = none).  A stem *)
(* met while a marker is pending is rescaled together with prev and does   *)
(* not become prev itself.  The markers are deleted afterwards.            *)
(***************************************************************************)
RECURSIVE scanBroken(_, _, _, _)
scanBroken(t, i, prev, brk) ==
    IF i > Len(t) THEN [t |-> t, raised |-> FALSE, calls |-> <<>>]
    ELSE LET x == t[i] IN
         IF x.name \in StemNames
         THEN IF brk # ""
              THEN IF prev = 0
                   THEN scanBroken(t, i + 1, prev, "")
                   ELSE IF doBrokenRaises(t[prev].dur, brk, x.dur)
                        THEN [t |-> t, raised |-> TRUE, calls |-> <<>>]
                        ELSE LET r == doBroken(t[prev].dur, brk, x.dur)
                                 s == scanBroken([t EXCEPT ![prev].dur = r[1],
                                                           ![i].dur = r[2]],
                                                 i + 1, prev, "")
                                 c == [brk |-> brk, prev |-> prev, x |-> i,
                                       d1 |-> t[prev].dur, d2 |-> x.dur,
                                       r1 |-> r[1], r2 |-> r[2]]
                             IN [s EXCEPT !.calls = <<c>> \o s.calls]
              ELSE scanBroken(t, i + 1, i, brk)
         ELSE IF x.name = "broken"
              THEN scanBroken(t, i + 1, prev, x.brk)
              ELSE scanBroken(t, i + 1, prev, brk)

notBroken(x) == x.name # "broken"

convertBroken(t) ==
    LET r == scanBroken(t, 1, 0, "") IN
    [t |-> SelectSeq(r.t, notBroken), raised |-> r.raised, calls |-> r.calls]

(***************************************************************************)
(* convertChord: every chord is replaced, at its position, by its members. *)
(***************************************************************************)
isNote(x) == x.name = "note"
isRest(x) == x.name = "rest"

\* chords containing only rests: hasattr (x, 'rest') and not hasattr (x, 'note')
onlyRests(x) == SelectSeq(x.objs, isRest) # <<>> /\ SelectSeq(x.objs, isNote) = <<>>

\* a chord note duration that forgets the member's own denominator
chordNoteDurNoDen(num1, den1, num2, den2) ==
    IF num1 * num2 = 0 /\ den1 = 0 THEN <<0, 0>> ELSE simplify(num1 * num2, den1)

\* nt.dur.t = simplify (num1 * num2, den1 * den2)
chordNoteDur(num1, den1, num2, den2) == simplify(num1 * num2, den1 * den2)

\* slur endings on every chord note
chordSlursAll(j, slurs, own) == IF slurs > 0 THEN slurs ELSE own

\* if j == 0 and slurs: nt.slurs = slurs
chordSlurs(j, slurs, own) == IF j = 0 /\ slurs > 0 THEN slurs ELSE own

\* pitches = [n.pitch for n in x.note]
chordPitches(x) ==
    LET notes == SelectSeq(x.objs, isNote) IN
    [n \in 1 .. Len(notes) |-> notes[n].pitch]

\* the member loop of one chord: k the member index, j the number of notes seen
RECURSIVE chordElms(_, _, _, _)
chordElms(x, k, j, elms) ==
    IF k > Len(x.objs) THEN [elms |-> elms, raised |-> FALSE]
    ELSE LET nt == x.objs[k] IN
         IF nt.name = "note"
         THEN IF simplifyRaises(x.dur[1] * nt.dur[1], x.dur[2] * nt.dur[2])
              THEN [elms |-> elms, raised |-> TRUE]
              ELSE chordElms(x, k + 1, j + 1, Append(elms,
                     [nt EXCEPT
                        !.dur = chordNoteDur(x.dur[1], x.dur[2], nt.dur[1], nt.dur[2]),
                        !.tie = IF x.tie THEN TRUE ELSE nt.tie,
                        !.slurs = chordSlurs(j, x.slurs, nt.slurs),
                        !.chord = (j > 0),
                        !.pitches = IF j = 0 THEN chordPitches(x) ELSE <<>>]))
         ELSE IF nt.name = "rest"
              THEN chordElms(x, k + 1, j, elms)
              ELSE chordElms(x, k + 1, j, Append(elms, nt))

\* the first loop of convertChord from position i on: ins holds, for every
\* chord met, its position and the elements that replace it, the last chord
\* first (ins.insert (0, ...))
RECURSIVE chordIns(_, _, _)
chordIns(t, i, ins) ==
    IF i > Len(t) THEN [ins |-> ins, raised |-> FALSE]
    ELSE LET x == t[i] IN
         IF x.name # "chord" THEN chordIns(t, i + 1, ins)
         ELSE IF onlyRests(x)
              THEN chordIns(t, i + 1,
                            <<[i |-> i, notes |-> <<SelectSeq(x.objs, isRest)[1]>>]>> \o ins)
              ELSE LET e == chordElms(x, 1, 0, <<>>) IN
                   IF e.raised THEN [ins |-> ins, raised |-> TRUE]
                   ELSE chordIns(t, i + 1, <<[i |-> i, notes |-> e.elms]>> \o ins)

\* the chord stays where it is
keepAt(t, i) == t

\* del t[i]
delAt(t, i) == SubSeq(t, 1, i - 1) \o SubSeq(t, i + 1, Len(t))

\* for nt in reversed (notes): t.insert (i+1, nt)
insertAfter(t, i, notes) == SubSeq(t, 1, i) \o notes \o SubSeq(t, i + 1, Len(t))

\* the second loop of convertChord: for i, notes in ins
RECURSIVE insertChords(_, _)
insertChords(t, ins) ==
    IF ins = <<>> THEN t
    ELSE insertChords(delAt(insertAfter(t, ins[1].i, ins[1].notes), ins[1].i), Tail(ins))

convertChord(t) ==
    LET r == chordIns(t, 1, <<>>)
    IN [t |-> IF r.raised THEN t ELSE insertChords(t, r.ins), raised |-> r.raised]

(***************************************************************************)
(* The grammar's parse actions, in the order the parser runs them: each    *)
(* element of a measure is appended when it is matched, and doMaat runs    *)
(* when the measure is complete.                                           *)
(***************************************************************************)
RECURSIVE tokens(_)
tokens(t) ==
    IF t = <<>> THEN 0
    ELSE (IF Head(t).name = "chord" THEN Len(Head(t).objs) ELSE 1) + tokens(Tail(t))

\* note = pitch + note_length + Optional (tie) + Optional (slur_ends)
noteActn ==
    /\ mpc = "parsing"
    /\ tokens(maat) < MaxTokens
    /\ \E d \in NoteLengths :
          maat' = Append(maat, pObj("note", d, "", <<>>, FALSE, 0))
    /\ UNCHANGED <<maatIn, maatBrk, brkCalls, mpc>>
    /\ UNCHANGED notMaat

\* rest = Optional (accidental) + rest_sym + note_length, written without a length
restActn ==
    /\ mpc = "parsing"
    /\ tokens(maat) < MaxTokens
    /\ maat' = Append(maat, pObj("rest", note_length(1, 0, DefaultDen), "", <<>>, FALSE, 0))
    /\ UNCHANGED <<maatIn, maatBrk, brkCalls, mpc>>
    /\ UNCHANGED notMaat

\* broken.setParseAction (lambda t: pObj ('broken', t))
brokenActn ==
    /\ mpc = "parsing"
    /\ tokens(maat) < MaxTokens
    /\ \E b \in BrokenSyms :
          maat' = Append(maat, pObj("broken", <<0, 0>>, b, <<>>, FALSE, 0))
    /\ UNCHANGED <<maatIn, maatBrk, brkCalls, mpc>>
    /\ UNCHANGED notMaat

\* the members a chord can hold within the bounds
ChordNotes ==
    { pObj("note", d, "", <<>>, FALSE, 0) :
        d \in {note_length(1, 0, DefaultDen), note_length(1, 1, DefaultDen)} }
    \cup { pObj("rest", note_length(1, 0, DefaultDen), "", <<>>, FALSE, 0) }

\* chord.setParseAction (lambda t: pObj ('chord', t, 1))
chordActn ==
    /\ mpc = "parsing"
    /\ \E n \in 1 .. MaxTokens - tokens(maat) :
       \E ms \in [1 .. n -> ChordNotes], d \in ChordLengths :
          maat' = Append(maat, pObj("chord", d, "", ms, FALSE, 0))
    /\ UNCHANGED <<maatIn, maatBrk, brkCalls, mpc>>
    /\ UNCHANGED notMaat

\* for nt in t[0]: if nt.name == 'note': nt.grace = 1
flagGrace(t) == [k \in 1 .. Len(t) |-> IF t[k].name = "note"
                                       THEN [t[k] EXCEPT !.grace = TRUE] ELSE t[k]]

\* grace_notes.setParseAction (doGrace): convertChord, flag the notes, ungroup.
\* The group holds one stem: a note, or a chord with a plain suffix.
doGrace ==
    /\ mpc = "parsing"
    /\ tokens(maat) < MaxTokens
    /\ \E n \in 0 .. MaxTokens - tokens(maat) :
       \E ms \in [1 .. n -> ChordNotes], d \in PlainLengths :
          LET g == IF n = 0 THEN <<pObj("note", d, "", <<>>, FALSE, 0)>>
                   ELSE <<pObj("chord", d, "", ms, FALSE, 0)>>
              c == convertChord(g)
          IN /\ ~c.raised
             /\ maat' = maat \o flagGrace(c.t)
    /\ UNCHANGED <<maatIn, maatBrk, brkCalls, mpc>>
    /\ UNCHANGED notMaat

\* measure.setParseAction (doMaat): convertBroken, then convertChord
doMaat ==
    /\ mpc = "parsing"
    /\ maat # <<>>
    /\ LET b == convertBroken(maat)
           c == convertChord(b.t)
       IN /\ maatIn' = maat
          /\ brkCalls' = b.calls
          /\ IF b.raised
             THEN /\ maatBrk' = <<>> /\ maat' = <<>> /\ mpc' = "raised"
             ELSE IF c.raised
                  THEN /\ maatBrk' = b.t /\ maat' = <<>> /\ mpc' = "raised"
                  ELSE /\ maatBrk' = b.t /\ maat' = c.t /\ mpc' = "done"
    /\ UNCHANGED notMaat

MaatInit ==
    /\ maat = <<>>
    /\ maatIn = <<>>
    /\ maatBrk = <<>>
    /\ brkCalls = <<>>
    /\ mpc = "parsing"

MaatNext ==
    \/ noteActn
    \/ restActn
    \/ brokenActn
    \/ chordActn
    \/ doGrace
    \/ doMaat

(***************************************************************************)
(* Properties of the rewrite passes.                                       *)
(***************************************************************************)
\* n/d of a duration pair
num(d) == d[1]
den(d) == d[2]

\* a1 + a2 = b1 + b2 as fractions, by cross multiplication
SameSum(a1, a2, b1, b2) ==
    (num(a1) * den(a2) + num(a2) * den(a1)) * (den(b1) * den(b2))
        = (num(b1) * den(b2) + num(b2) * den(b1)) * (den(a1) * den(a2))

SameFraction(a, b) == num(a) * den(b) = num(b) * den(a)

Reduced(d) == gcdLoop(num(d), den(d)) = 1

Positive(d) == num(d) > 0 /\ den(d) > 0

\* the index in the measure without its markers of the element at index i
RECURSIVE posBrk(_, _)
posBrk(t, i) ==
    IF i = 0 THEN 0
    ELSE posBrk(t, i - 1) + (IF t[i].name = "broken" THEN 0 ELSE 1)

\* the markers of the parsed measure that stand between two stems
JoiningMarkers ==
    { i \in 2 .. Len(maatIn) - 1 :
        /\ maatIn[i].name = "broken" /\ brokenKnown(maatIn[i].brk)
        /\ maatIn[i - 1].name \in StemNames
        /\ maatIn[i + 1].name \in StemNames }

\* C1 as claimed: convertBroken preserves the sum of the durations of the two
\* stems joined by a marker '>', '<', '>>' or '<<', whatever the (positive)
\* durations are.
C1_BrokenKeepsSum ==
    mpc = "done" =>
        \A i \in JoiningMarkers :
            (Positive(maatIn[i - 1].dur) /\ Positive(maatIn[i + 1].dur)) =>
                SameSum(maatIn[i - 1].dur, maatIn[i + 1].dur,
                        maatBrk[posBrk(maatIn, i - 1)].dur,
                        maatBrk[posBrk(maatIn, i + 1)].dur)

\* C1 amended: an application of a marker '>', '<', '>>' or '<<' to two stems
\* (one doBroken call) preserves the sum of their durations exactly when the two
\* stems have equal durations at that moment (denominators not zero).
C1_EqualStemsKeepSum ==
    \A k \in 1 .. Len(brkCalls) :
        LET c == brkCalls[k] IN
        (brokenKnown(c.brk) /\ den(c.d1) > 0 /\ den(c.d2) > 0) =>
            (SameSum(c.d1, c.d2, c.r1, c.r2) <=> SameFraction(c.d1, c.d2))

\* C1 witness: a marker was applied to two stems of equal, non-zero duration.
C1_Witness ==
    /\ mpc = "done"
    /\ \E k \in 1 .. Len(brkCalls) :
          LET c == brkCalls[k] IN
          /\ brokenKnown(c.brk) /\ den(c.d1) > 0 /\ den(c.d2) > 0
          /\ num(c.d1) > 0 /\ SameFraction(c.d1, c.d2)
          /\ c.r1 # c.d1

PowersOfTwoTo64 == {1, 2, 4, 8, 16, 32, 64}

\* C2 as claimed: after doMaat every duration of the measure (here: every one
\* with a positive numerator and denominator) is reduced and has a denominator
\* that is a power of two not exceeding 64.
C2_AllDurationsNormal ==
    mpc = "done" =>
        \A k \in 1 .. Len(maat) :
            (maat[k].name \in {"note", "rest"} /\ Positive(maat[k].dur)) =>
                Reduced(maat[k].dur) /\ den(maat[k].dur) \in PowersOfTwoTo64

\* a note that convertChord made from a chord member
isChordNote(x) == x.name = "note" /\ (x.pitches # <<>> \/ x.chord)

\* C2 amended: after doMaat (and doGrace) every duration that a pass has written,
\* that is the durations of the two stems of every applied marker and of every
\* note flattened out of a chord, is reduced: gcd(n, d) = 1.
C2_WrittenDurationsReduced ==
    mpc = "done" =>
        /\ \A k \in 1 .. Len(brkCalls) :
              LET c == brkCalls[k] IN
              brokenKnown(c.brk) =>
                  /\ Reduced(c.r1) /\ Reduced(c.r2)
                  /\ Reduced(maatBrk[posBrk(maatIn, c.prev)].dur)
                  /\ Reduced(maatBrk[posBrk(maatIn, c.x)].dur)
        /\ \A k \in 1 .. Len(maat) : isChordNote(maat[k]) => Reduced(maat[k].dur)

\* C2 witness: a marker was applied to a chord whose notes were then flattened,
\* and the scaled durations needed reducing.
C2_Witness ==
    /\ mpc = "done"
    /\ \E k \in 1 .. Len(brkCalls) :
          /\ brokenKnown(brkCalls[k].brk)
          /\ maatIn[brkCalls[k].prev].name = "chord"
          /\ ~Reduced(<<3 * num(brkCalls[k].d1), 2 * den(brkCalls[k].d1)>>)
    /\ \E k \in 1 .. Len(maat) : isChordNote(maat[k]) /\ ~maat[k].grace

notRest(x) == x.name # "rest"

\* the number of elements an element of the measure leaves after convertChord
flatWidth(x) ==
    IF x.name # "chord" THEN 1
    ELSE IF onlyRests(x) THEN 1 ELSE Len(SelectSeq(x.objs, notRest))

RECURSIVE flatOffset(_, _)
flatOffset(t, i) == IF i = 0 THEN 0 ELSE flatOffset(t, i - 1) + flatWidth(t[i])

\* the chords of the measure that convertChord flattens into their notes
FlattenedChords ==
    { i \in 1 .. Len(maatBrk) : maatBrk[i].name = "chord" /\ ~onlyRests(maatBrk[i]) }

\* C3: convertChord gives every member note of a chord the reduced fraction
\* (chord_num * member_num) / (chord_den * member_den), the chord's duration
\* being the one convertChord receives; so members with equal own fractions end
\* equal and unequal members keep their ratio.
C3_ChordMemberDuration ==
    mpc = "done" =>
        \A i \in FlattenedChords :
            LET x == maatBrk[i]
                ms == SelectSeq(x.objs, notRest)
                at == flatOffset(maatBrk, i - 1)
            IN \A k \in 1 .. Len(ms) :
                  LET r == maat[at + k].dur IN
                  /\ maat[at + k].name = "note"
                  /\ Reduced(r)
                  /\ num(r) * (den(x.dur) * den(ms[k].dur))
                        = den(r) * (num(x.dur) * num(ms[k].dur))
                  /\ \A l \in 1 .. Len(ms) :
                        SameFraction(ms[k].dur, ms[l].dur) => maat[at + l].dur = r

\* C3 witness: a chord of two notes with unequal own fractions and a suffix
\* other than 1 was flattened.
C3_Witness ==
    /\ mpc = "done"
    /\ \E i \in FlattenedChords :
          LET x == maatBrk[i]
              ms == SelectSeq(x.objs, notRest)
          IN /\ Len(ms) = 2
             /\ ~SameFraction(ms[1].dur, ms[2].dur)
             /\ num(x.dur) > 0 /\ den(x.dur) > 0 /\ x.dur # <<1, 1>>

(***************************************************************************)
(* The note emitter: MusicXml.mkPart, mkMeasure, mkNote and doNotations,   *)
(* as far as they read or write the tie table, the slur stack and the      *)
(* tuplet/tremolo counters.  A note n is a record                          *)
(*   pt      its pitch tuple (step, octave); "z" for a rest                *)
(*   tie     the note starts a tie                                         *)
(*   closes  the number of slur ends in n.slurs                            *)
(*   grace   n.grace                                                       *)
(*   chord   n.chord: a chord note after the first                         *)
(*   pts     n.pitches: the pitches of the chord, on its first note        *)
(***************************************************************************)
Pitches == {"C", "D"}

nNote(pt, tie, closes, grace, chord, pts) ==
    [pt |-> pt, tie |-> tie, closes |-> closes, grace |-> grace,
     chord |-> chord, pts |-> pts]

\* the notes, grace notes and the rest a measure can hold within the bounds
EmitNotes ==
    { nNote(p, t, c, FALSE, FALSE, {}) : p \in Pitches, t \in BOOLEAN, c \in 0 .. MaxSlurs }
    \cup { nNote(p, FALSE, c, TRUE, FALSE, {}) : p \in Pitches, c \in 0 .. 1 }
    \cup { nNote("z", FALSE, 0, FALSE, FALSE, {}) }

NoLast == [closes |-> 0, met |-> <<>>, stops |-> <<>>, after |-> <<>>,
           pt |-> "", tie |-> FALSE, pre |-> <<>>, conv |-> {}, infos |-> 0,
           others |-> {}]

\* slurnum = len (s.slurstack) + 1; s.slurstack.append (slurnum), k times
pushSlurs(stack, k) == stack \o [i \in 1 .. k |-> Len(stack) + i]

\* tstop = ptup in s.ties and s.ties[ptup][2] == s.overlayVnum
tieStop(tt, n, ov) == \E e \in tt : e.pt = n.pt /\ e.vnum = ov

\* the open ties that the scan of doNotations converts to slurs on note n
illegalTies(tt, n, ov) ==
    { e \in tt : /\ e.vnum = ov
                 /\ e.pt \notin n.pts
                 /\ ~n.chord
                 /\ e.pt # n.pt
                 /\ ~n.grace }

\* mkNote and the doNotations it calls, on the emitter state st.  The record
\* last keeps what the call met and did: the note's pitch, tie and slur ends,
\* the slur stack before the note (pre), after the tie conversions (met) and
\* after the slur ends (after), the numbers of the slur stops emitted (stops),
\* the ties converted (conv) with their messages (infos), and the open ties
\* of other overlays (others).
mkNote(st, n, ov, v) ==
    LET real == ~n.grace /\ ~n.chord
        ntup1 == IF st.ntup >= 0 /\ real THEN st.ntup - 1 ELSE st.ntup
        tstop == tieStop(st.ties, n, ov)
        tupnotation ==
            IF ntup1 = 0 /\ real THEN "stop"
            ELSE IF ntup1 > 0 /\ ~st.tupnts THEN "start" ELSE ""
        tupnts1 == IF ntup1 > 0 THEN TRUE ELSE IF ntup1 = 0 THEN FALSE ELSE st.tupnts
        bad == illegalTies(st.ties, n, ov)
        others == { e \in st.ties : e.vnum # ov }
        ties1 == st.ties \ bad
        stack1 == pushSlurs(st.slurstack, Cardinality(bad))
        closes1 == n.closes + Cardinality(bad)
        \* if not tupnotation: return
        early == st.trem > 0 /\ tupnotation = ""
        trem1 == IF st.trem > 0 /\ tupnotation = "stop" THEN 0 ELSE st.trem
        ties2 == IF tstop THEN { e \in ties1 : e.pt # n.pt } ELSE ties1
        ties3 == IF n.tie
                 THEN { e \in ties2 : e.pt # n.pt } \cup {[pt |-> n.pt, vnum |-> ov, vce |-> v]}
                 ELSE ties2
        npop == IF closes1 < Len(stack1) THEN closes1 ELSE Len(stack1)
        stack2 == SubSeq(stack1, 1, Len(stack1) - npop)
        stops == [i \in 1 .. npop |-> stack1[Len(stack1) + 1 - i]]
        stack3 == pushSlurs(stack2, st.slurbeg)
    IN IF early
       THEN [ties |-> ties1, slurstack |-> stack1, slurbeg |-> st.slurbeg,
             ntup |-> ntup1, trem |-> st.trem, tupnts |-> tupnts1,
             last |-> [closes |-> n.closes, met |-> stack1, stops |-> <<>>,
                       after |-> stack1, pt |-> n.pt, tie |-> n.tie,
                       pre |-> st.slurstack, conv |-> bad, infos |-> Cardinality(bad),
                       others |-> others]]
       ELSE [ties |-> ties3, slurstack |-> stack3, slurbeg |-> 0,
             ntup |-> ntup1, trem |-> trem1, tupnts |-> tupnts1,
             last |-> [closes |-> n.closes, met |-> stack1, stops |-> stops,
                       after |-> stack2, pt |-> n.pt, tie |-> n.tie,
                       pre |-> st.slurstack, conv |-> bad, infos |-> Cardinality(bad),
                       others |-> others]]

emitState ==
    [ties |-> ties, slurstack |-> slurstack, slurbeg |-> slurbeg, ntup |-> ntup,
     trem |-> trem, tupnts |-> tupnts, last |-> last]

setEmit(st) ==
    /\ ties' = st.ties
    /\ slurstack' = st.slurstack
    /\ slurbeg' = st.slurbeg
    /\ ntup' = st.ntup
    /\ trem' = st.trem
    /\ tupnts' = st.tupnts
    /\ last' = st.last

\* MusicXml.reset: the emitter state at the start of parse
EmitInit ==
    /\ ties = {}
    /\ slurstack = <<>>
    /\ slurbeg = 0
    /\ overlayVnum = 0
    /\ ntup = 0
    /\ trem = 0
    /\ tupnts = FALSE
    /\ vce = 0
    /\ msr = 0
    /\ nelm = 0
    /\ epc = "idle"
    /\ last = NoLast

\* mkPart up to the first element of its first measure
mkPart ==
    /\ epc = "idle"
    /\ vce < MaxVoices
    /\ vce' = vce + 1
    /\ slurstack' = <<>>
    /\ overlayVnum' = 0
    /\ ntup' = -1 /\ trem' = 0
    /\ msr' = 1 /\ nelm' = 0
    /\ epc' = "voice"
    /\ UNCHANGED <<ties, slurbeg, tupnts, last>>
    /\ UNCHANGED notEmit

\* mkMeasure, x.name == 'note' or 'rest': one note, grace note or rest
mkNoteActn ==
    /\ epc = "voice"
    /\ nelm < MaxElems
    /\ \E n \in EmitNotes : setEmit(mkNote(emitState, n, overlayVnum, vce))
    /\ nelm' = nelm + 1
    /\ UNCHANGED <<overlayVnum, vce, msr, epc>>
    /\ UNCHANGED notEmit

\* mkMeasure on the two notes convertChord made of a chord of both pitches
mkChordActn ==
    /\ epc = "voice"
    /\ nelm < MaxElems
    /\ \E t \in BOOLEAN, c \in 0 .. 1 :
          LET n1 == nNote("C", t, c, FALSE, FALSE, Pitches)
              n2 == nNote("D", t, 0, FALSE, TRUE, {})
          IN setEmit(mkNote(mkNote(emitState, n1, overlayVnum, vce), n2, overlayVnum, vce))
    /\ nelm' = nelm + 1
    /\ UNCHANGED <<overlayVnum, vce, msr, epc>>
    /\ UNCHANGED notEmit

\* staffDecos, d == '(': start a slur on the next note
decoSlurBeg ==
    /\ epc = "voice"
    /\ nelm < MaxElems
    /\ slurbeg + Len(slurstack) < MaxSlurs
    /\ slurbeg' = slurbeg + 1
    /\ nelm' = nelm + 1
    /\ UNCHANGED <<ties, slurstack, overlayVnum, ntup, trem, tupnts, vce, msr, epc, last>>
    /\ UNCHANGED notEmit

\* staffDecos, d in ['/-','//-','///-']: a tremolo sequence of two notes
decoTremolo ==
    /\ epc = "voice"
    /\ nelm < MaxElems
    /\ ntup' = 2 /\ trem' = 1
    /\ nelm' = nelm + 1
    /\ UNCHANGED <<ties, slurstack, slurbeg, overlayVnum, tupnts, vce, msr, epc, last>>
    /\ UNCHANGED notEmit

\* mkPart's loop: the measure ended with or without '&', the next one starts
mkMeasure ==
    /\ epc = "voice"
    /\ msr < MaxMeasures
    /\ \E ovl \in BOOLEAN :
          overlayVnum' = IF ovl THEN overlayVnum + 1 ELSE 0
    /\ ntup' = -1 /\ trem' = 0
    /\ msr' = msr + 1 /\ nelm' = 0
    /\ UNCHANGED <<ties, slurstack, slurbeg, tupnts, vce, epc, last>>
    /\ UNCHANGED notEmit

\* mkPart returns
endPart ==
    /\ epc = "voice"
    /\ epc' = "idle"
    /\ UNCHANGED <<ties, slurstack, slurbeg, overlayVnum, ntup, trem, tupnts,
                   vce, msr, nelm, last>>
    /\ UNCHANGED notEmit

\* parse returns the score after the last voice
endTune ==
    /\ epc = "idle"
    /\ vce > 0
    /\ epc' = "end"
    /\ UNCHANGED <<ties, slurstack, slurbeg, overlayVnum, ntup, trem, tupnts,
                   vce, msr, nelm, last>>
    /\ UNCHANGED notEmit

\* parse of the next tune calls reset
emitReset ==
    /\ epc = "end"
    /\ ties' = {}
    /\ slurstack' = <<>>
    /\ slurbeg' = 0
    /\ overlayVnum' = 0
    /\ ntup' = 0 /\ trem' = 0 /\ tupnts' = FALSE
    /\ vce' = 0 /\ msr' = 0 /\ nelm' = 0
    /\ epc' = "idle"
    /\ last' = NoLast
    /\ UNCHANGED notEmit

EmitNext ==
    \/ mkPart
    \/ mkNoteActn
    \/ mkChordActn
    \/ decoSlurBeg
    \/ decoTremolo
    \/ mkMeasure
    \/ endPart
    \/ endTune
    \/ emitReset

\* C4 as claimed: no tie entry is present when the next voice or the end of the
\* tune is reached: between voices and after the last voice the tie table is
\* empty, and every entry in it was put there by the voice being emitted.
C4_NoTieOutlivesVoice ==
    /\ epc # "voice" => ties = {}
    /\ \A e \in ties : e.vce = vce

\* C5 as claimed: a slur end on a note that meets a non-empty slur stack pops the
\* number pushed last and emits a slur stop with that number.
C5_ClosePopsLast ==
    (last.closes > 0 /\ last.met # <<>>) =>
        /\ last.stops # <<>>
        /\ last.stops[1] = last.met[Len(last.met)]
        /\ last.after = SubSeq(last.met, 1, Len(last.met) - Len(last.stops))

\* the numbers a sequence holds
Range(q) == { q[i] : i \in 1 .. Len(q) }

\* the smaller of two numbers
Min(a, b) == IF a < b THEN a ELSE b

\* C15 as claimed: a note that converts open ties of its overlay to slurs
\* removes their entries from the tie table, gives each a slur number that no
\* open slur has, reports each, and emits the slur stop of each on the same
\* note, so that after the note only the note's own slur ends have made the
\* slur stack less deep than it was before the note; the open ties of the
\* other overlays stay in the table (but for one on the pitch of the note
\* when the note starts a tie of its own on that pitch).
C15_TieBecomesClosedSlur ==
    last.conv # {} =>
        LET k == Cardinality(last.conv)
            new == { last.met[Len(last.pre) + i] : i \in 1 .. k }
        IN /\ last.conv \cap ties = {}
           /\ Len(last.met) = Len(last.pre) + k
           /\ Cardinality(new) = k
           /\ new \cap Range(last.pre) = {}
           /\ last.infos = k
           /\ new \subseteq Range(last.stops)
           /\ Len(last.after) = Len(last.pre) - Min(last.closes, Len(last.pre))
           /\ \A e \in last.others : e \in ties \/ (last.tie /\ e.pt = last.pt)

(***************************************************************************)
(* Merging: mergeMeasure and mergePartList.  A measure is the sequence of  *)
(* its xml children; a child is a record                                   *)
(*   tag     "note", "backup", "attributes" or "print"                     *)
(*   dur     the number in its duration child, 0 if it has none            *)
(*   chord, grace, rest   the note has such a child                        *)
(*   voice   the number in the note's voice child                          *)
(*   slur    the number of the note's notations/slur child, 0 if none      *)
(*   lyric   the numbers of the note's lyric children                      *)
(*   kids    the tags of the children of an attributes element             *)
(*   src     the part the child was made for (history)                     *)
(***************************************************************************)
xNote(dur, chord, grace, rest, slur) ==
    [tag |-> "note", dur |-> dur, chord |-> chord, grace |-> grace, rest |-> rest,
     voice |-> 1, slur |-> slur, lyric |-> {}, kids |-> {}, src |-> 0]

xOther(tag, dur) ==
    [tag |-> tag, dur |-> dur, chord |-> FALSE, grace |-> FALSE, rest |-> FALSE,
     voice |-> 0, slur |-> 0, lyric |-> {}, kids |-> {}, src |-> 0]

\* a note with lyric elements of the given numbers
xLyricNote(dur, lyric) == [xNote(dur, FALSE, FALSE, FALSE, 0) EXCEPT !.lyric = lyric]

\* an attributes element with children of the given tags
xAttributes(kids) == [xOther("attributes", 0) EXCEPT !.kids = kids]

\* the measures mkMeasure (and mergePartMeasure, for the last) can have made
MeasureShapes ==
    { <<xNote(1, FALSE, FALSE, FALSE, 0)>>,
      <<xNote(2, FALSE, FALSE, FALSE, 1)>>,
      <<xNote(1, FALSE, FALSE, FALSE, 1), xNote(1, FALSE, FALSE, FALSE, 1)>>,
      <<xNote(1, FALSE, FALSE, FALSE, 0), xNote(1, TRUE, FALSE, FALSE, 0)>>,
      <<xNote(0, FALSE, TRUE, FALSE, 0), xNote(2, FALSE, FALSE, FALSE, 0)>>,
      <<xNote(2, FALSE, FALSE, TRUE, 0)>>,
      <<xNote(1, FALSE, FALSE, TRUE, 0), xNote(1, FALSE, FALSE, FALSE, 0)>>,
      <<xNote(0, FALSE, FALSE, FALSE, 0), xNote(1, FALSE, FALSE, FALSE, 0)>>,
      <<xAttributes({"clef"}), xNote(1, FALSE, FALSE, FALSE, 0)>>,
      <<xNote(2, FALSE, FALSE, FALSE, 0), xOther("backup", 2),
        xNote(1, FALSE, FALSE, FALSE, 0)>> }

setSrc(m, k) == [i \in 1 .. Len(m) |-> [m[i] EXCEPT !.src = k]]

RECURSIVE sumSeq(_)
sumSeq(q) == IF q = <<>> THEN 0 ELSE Head(q) + sumSeq(Tail(q))

sumOver(m, f(_)) == sumSeq([i \in 1 .. Len(m) |-> f(m[i])])

isRealNote(e) == e.tag = "note" /\ ~e.grace /\ ~e.chord

realDur(e) == IF isRealNote(e) THEN e.dur ELSE 0
backupDur(e) == IF e.tag = "backup" THEN e.dur ELSE 0

\* a measure duration that forgets the backups
measureDurNoBackups(m) == sumOver(m, realDur)

\* dur1: the total duration of m1, all backups subtracted
measureDur(m) == sumOver(m, realDur) - sumOver(m, backupDur)

\* n.find ('duration') is None for a note that is neither grace nor chord
measureDurRaises(m) == \E i \in 1 .. Len(m) : isRealNote(m[i]) /\ m[i].dur = 0

RECURSIVE maxSeq(_)
maxSeq(q) ==
    IF q = <<>> THEN 0
    ELSE LET b == maxSeq(Tail(q)) IN IF Head(q) > b THEN Head(q) ELSE b

\* max ([int (...) for ...] + [0])
maxOver(m, f(_)) == maxSeq([i \in 1 .. Len(m) |-> f(m[i])])

slurNum(e) == IF e.tag = "note" THEN e.slur ELSE 0
voiceNum(e) == IF e.tag = "note" THEN e.voice ELSE 0

\* a renumbering that leaves the voice numbers alone
renumberSlursOnly(m, slur_offset, voice_offset) ==
    [i \in 1 .. Len(m) |->
        IF m[i].tag = "note"
        THEN [m[i] EXCEPT !.slur = IF @ > 0 THEN @ + slur_offset ELSE 0]
        ELSE m[i]]

\* slrnum + slur_offset; voice_offset + int (v.text)
renumber(m, slur_offset, voice_offset) ==
    [i \in 1 .. Len(m) |->
        IF m[i].tag = "note"
        THEN [m[i] EXCEPT !.slur = IF @ > 0 THEN @ + slur_offset ELSE 0,
                          !.voice = @ + voice_offset]
        ELSE m[i]]

\* max over the lyric numbers of a measure, 0 if it has none
lyricMax(m) ==
    maxSeq([i \in 1 .. Len(m) |->
              IF m[i].lyric = {} THEN 0
              ELSE CHOOSE n \in m[i].lyric : \A k \in m[i].lyric : k <= n])

\* el.set ('number', str (n + lnum_max))
relyric(m, lnum_max) ==
    [i \in 1 .. Len(m) |-> [m[i] EXCEPT !.lyric = { n + lnum_max : n \in @ }]]

\* mergeMeasure: the new m1, or raised
mergeMeasure(ma, mb, slur_offset, voice_offset, ropt, is_grand) ==
    LET m2 == relyric(renumber(mb, slur_offset, voice_offset), lyricMax(ma))
        dur1 == measureDur(ma)
        counts(e) == IF \/ e.tag = "attributes" /\ is_grand
                        \/ e.tag = "note" /\ (ropt \/ ~e.rest)
                     THEN 1 ELSE 0
        nns == sumOver(m2, counts)
        es == SelectSeq(m2, LAMBDA e : ~(e.tag = "attributes" /\ ~is_grand)
                                       /\ e.tag # "print")
        b == IF dur1 > 0 THEN <<xOther("backup", dur1)>> ELSE <<>>
    IN IF measureDurRaises(ma) THEN [m |-> ma, raised |-> TRUE]
       ELSE [m |-> IF nns > 0 THEN ma \o b \o es ELSE ma, raised |-> FALSE]

\* max over all measures of a part
slurMax(p) == maxSeq([i \in 1 .. Len(p) |-> maxOver(p[i], slurNum)])
vnumMax(p) == maxSeq([i \in 1 .. Len(p) |-> maxOver(p[i], voiceNum)])

\* a delAttrs that keeps every child of the attributes elements
keepAttrs(p) == p

\* mergePartList.delAttrs: the attributes elements keep their clef children,
\* an attributes element without children is removed
delAttrs(p) ==
    [im \in 1 .. Len(p) |->
        SelectSeq([i \in 1 .. Len(p[im]) |->
                      IF p[im][i].tag = "attributes"
                      THEN [p[im][i] EXCEPT !.kids = @ \cap {"clef"}]
                      ELSE p[im][i]],
                  LAMBDA e : ~(e.tag = "attributes" /\ e.kids = {}))]

\* mergePartList for one p2: pad p1 with empty measures, merge measure by measure
mergePartList(pa, pb0, ropt, is_grand) ==
    LET pb == IF is_grand THEN delAttrs(pb0) ELSE pb0
        pad == pa \o [i \in 1 .. Len(pb) - Len(pa) |-> <<>>]
        slur_max == slurMax(pad)
        vnum_max == vnumMax(pad)
        r == [im \in 1 .. Len(pb) |->
                mergeMeasure(pad[im], pb[im], slur_max, vnum_max, ropt, is_grand)]
    IN [p |-> [im \in 1 .. Len(pad) |-> IF im <= Len(pb) THEN r[im].m ELSE pad[im]],
        raised |-> \E im \in 1 .. Len(pb) : r[im].raised]

\* mergePartMeasure: merge msre into the last measure of part, for overlays
mergePartMeasure(pa, msre, ovrlaynum, ropt) ==
    LET r == mergeMeasure(pa[Len(pa)], msre, slurMax(pa), ovrlaynum, ropt, FALSE)
    IN [p |-> [pa EXCEPT ![Len(pa)] = r.m], raised |-> r.raised]

NoMerge == [before |-> <<>>, m2 |-> <<>>, after |-> <<>>]

MergeInit ==
    /\ staveMsrs = <<>>
    /\ m1 = <<>>
    /\ nmerged = 0
    /\ rOpt = FALSE
    /\ mhist = NoMerge
    /\ mergepc = "idle"

\* mergeParts: the parts of a stave, here their measures with one number
mergeParts ==
    /\ mergepc = "idle"
    /\ \E n \in 2 .. MaxStaveParts : \E ms \in [1 .. n -> MeasureShapes] :
          /\ staveMsrs' = [k \in 1 .. n |-> setSrc(ms[k], k)]
          /\ m1' = setSrc(ms[1], 1)
    /\ rOpt' \in BOOLEAN
    /\ nmerged' = 1
    /\ mergepc' = "merging"
    /\ UNCHANGED mhist
    /\ UNCHANGED notMerge

\* mergePartList, one p2 of parts[1:], on parts of one measure
mergeStaveMeasure ==
    /\ mergepc = "merging"
    /\ nmerged < Len(staveMsrs)
    /\ LET m2 == staveMsrs[nmerged + 1]
           r == mergePartList(<<m1>>, <<m2>>, rOpt, FALSE)
       IN IF r.raised
          THEN /\ mergepc' = "raised"
               /\ UNCHANGED <<m1, nmerged, mhist>>
          ELSE /\ m1' = r.p[1]
               /\ nmerged' = nmerged + 1
               /\ mhist' = [before |-> m1, m2 |-> m2, after |-> r.p[1]]
               /\ UNCHANGED mergepc
    /\ UNCHANGED <<staveMsrs, rOpt>>
    /\ UNCHANGED notMerge

MergeNext ==
    \/ mergeParts
    \/ mergeStaveMeasure

\* the time a measure has reached before its i-th child
timeAt(m, i) ==
    sumOver(SubSeq(m, 1, i - 1), realDur) - sumOver(SubSeq(m, 1, i - 1), backupDur)

ofSrc(m, k) == SelectSeq(m, LAMBDA e : e.src = k)
backups(m) == SelectSeq(m, LAMBDA e : e.tag = "backup")

\* the first child of m made for part k, 0 if there is none
firstOf(m, k) ==
    IF \E i \in 1 .. Len(m) : m[i].src = k
    THEN CHOOSE i \in 1 .. Len(m) : m[i].src = k /\ \A j \in 1 .. i - 1 : m[j].src # k
    ELSE 0

\* C6: a mergeMeasure call adds at most one backup to m1, ahead of the children
\* of m2 it splices in, with the duration of m1's notes that are neither chord
\* nor grace notes less m1's backups; so the children of every merged part start
\* at time 0 of the measure, and every part keeps the durations it came with.
C6_BackupAlignsVoices ==
    LET b == mhist.before
        a == mhist.after
        k == nmerged
        new == SubSeq(a, Len(b) + 1, Len(a))
    IN (mergepc = "merging" /\ nmerged > 1) =>
        /\ SubSeq(a, 1, Len(b)) = b
        /\ Len(backups(a)) <= Len(backups(b)) + Len(backups(mhist.m2)) + 1
        /\ a # b =>
             /\ Len(backups(a)) = Len(backups(b)) + Len(backups(mhist.m2)) + 1
                  => /\ new[1].tag = "backup"
                     /\ new[1].dur = sumOver(b, realDur) - sumOver(b, backupDur)
             /\ timeAt(a, firstOf(a, k)) = 0
        /\ \A j \in 1 .. k :
             firstOf(m1, j) > 0 =>
                /\ timeAt(m1, firstOf(m1, j)) = 0
                /\ sumOver(ofSrc(m1, j), realDur) = sumOver(staveMsrs[j], realDur)

\* C6 witness: three parts were merged, each merge put a backup in, the second
\* one when m1 already held a backup and notes of different total durations.
C6_Witness ==
    /\ mergepc = "merging" /\ nmerged = 3
    /\ Len(backups(mhist.before)) = 1
    /\ Len(backups(m1)) = 2
    /\ backups(m1)[1].dur # backups(m1)[2].dur
    /\ \E i \in 1 .. Len(m1) : m1[i].chord

(***************************************************************************)
(* mkPart with overlays, then mergeParts: the slur and voice numbers.      *)
(* A measure made by mkMeasure holds notes of voice 1 with the slur        *)
(* numbers the slur stack gave them; src is <<part, overlay>>.             *)
(***************************************************************************)
NumberShapes ==
    { <<xNote(1, FALSE, FALSE, FALSE, 0)>>,
      <<xNote(1, FALSE, FALSE, FALSE, 1)>> }

\* mergePartList: E.Element ('measure', number = str(i)), appended to p1
padNumbers(nums, n) == nums \o [i \in 1 .. n - Len(nums) |-> Len(nums) + i]

\* max over the lyric numbers of all measures of a part
lyricMaxPart(p) == maxSeq([i \in 1 .. Len(p) |-> lyricMax(p[i])])

NoPartMerge ==
    [kind |-> "none", slur_max |-> 0, vnum_max |-> 0, lnum_max |-> 0,
     before |-> <<>>, src |-> <<0, 0>>]

PartInit ==
    /\ parts = <<>>
    /\ part = <<>>
    /\ overlay = FALSE
    /\ ovnum = 0
    /\ nmsre = 0
    /\ p1 = <<>>
    /\ np = 0
    /\ phist = NoPartMerge
    /\ isGrand = FALSE
    /\ mnum = [part |-> <<>>, made |-> 0, parts |-> <<>>, p1 |-> <<>>]
    /\ partpc = "idle"

\* mkPart: the first measure
mkPartFirst ==
    /\ partpc = "idle"
    /\ np = 0
    /\ nmsre < MaxMsrs
    /\ \E ms \in NumberShapes : part' = <<setSrc(ms, <<Len(parts) + 1, 0>>)>>
    /\ overlay' \in BOOLEAN
    /\ ovnum' = 0
    /\ nmsre' = nmsre + 1
    /\ phist' = NoPartMerge
    /\ mnum' = [mnum EXCEPT !.part = <<1>>, !.made = 1]
    /\ partpc' = "part"
    /\ UNCHANGED <<parts, p1, np, isGrand>>
    /\ UNCHANGED notPart

\* mkPart: for i, maat in enumerate (maten[1:])
mkPartNext ==
    /\ partpc = "part"
    /\ nmsre < MaxMsrs
    /\ LET vnum == IF overlay THEN ovnum + 1 ELSE 0 IN
       \E ms \in NumberShapes :
          LET msre == setSrc(ms, <<Len(parts) + 1, vnum>>)
              r == mergePartMeasure(part, msre, vnum, FALSE)
          IN /\ ovnum' = vnum
             /\ IF overlay
                THEN /\ part' = r.p
                     /\ phist' = [kind |-> "overlay", slur_max |-> slurMax(part),
                                  vnum_max |-> vnumMax(part),
                                  lnum_max |-> lyricMaxPart(part), before |-> part,
                                  src |-> <<Len(parts) + 1, vnum>>]
                ELSE /\ part' = Append(part, msre)
                     /\ UNCHANGED phist
    /\ overlay' \in BOOLEAN
    /\ nmsre' = nmsre + 1
    /\ mnum' = [mnum EXCEPT !.made = @ + 1,
                            !.part = IF overlay THEN @ ELSE Append(@, mnum.made + 1)]
    /\ UNCHANGED <<parts, p1, np, isGrand, partpc>>
    /\ UNCHANGED notPart

\* mkPart returns; parts.append (part)
mkPartEnd ==
    /\ partpc = "part"
    /\ parts' = Append(parts, part)
    /\ mnum' = [mnum EXCEPT !.parts = Append(@, mnum.part)]
    /\ partpc' = "idle"
    /\ UNCHANGED <<part, overlay, ovnum, nmsre, p1, np, phist, isGrand>>
    /\ UNCHANGED notPart

\* mergePartList: p1 = parts[0]
mergeFirst ==
    /\ partpc = "idle"
    /\ Len(parts) >= 2
    /\ p1' = parts[1]
    /\ np' = 1
    /\ isGrand' \in BOOLEAN
    /\ mnum' = [mnum EXCEPT !.p1 = mnum.parts[1]]
    /\ partpc' = "merging"
    /\ UNCHANGED <<parts, part, overlay, ovnum, nmsre, phist>>
    /\ UNCHANGED notPart

\* mergePartList: for p2 in parts[1:]
mergePartListNext ==
    /\ partpc = "merging"
    /\ np < Len(parts)
    /\ LET r == mergePartList(p1, parts[np + 1], FALSE, isGrand) IN
       IF r.raised
       THEN /\ partpc' = "raised"
            /\ UNCHANGED <<p1, np, phist, mnum>>
       ELSE /\ p1' = r.p
            /\ np' = np + 1
            /\ phist' = [kind |-> "list", slur_max |-> slurMax(p1),
                         vnum_max |-> vnumMax(p1), lnum_max |-> lyricMaxPart(p1),
                         before |-> p1, src |-> <<np + 1, 0>>]
            /\ mnum' = [mnum EXCEPT !.p1 = padNumbers(@, Len(parts[np + 1]))]
            /\ UNCHANGED partpc
    /\ UNCHANGED <<parts, part, overlay, ovnum, nmsre, isGrand>>
    /\ UNCHANGED notPart

PartNext ==
    \/ mkPartFirst
    \/ mkPartNext
    \/ mkPartEnd
    \/ mergeFirst
    \/ mergePartListNext

\* the children of all measures of a part
RECURSIVE flat(_)
flat(p) == IF p = <<>> THEN <<>> ELSE Head(p) \o flat(Tail(p))

notesOf(p) == { e \in { flat(p)[i] : i \in 1 .. Len(flat(p)) } : e.tag = "note" }

\* the part the last merge worked on, and the notes it merged in
mergedInto == IF phist.kind = "list" THEN p1 ELSE part
mergedNotes ==
    IF phist.kind = "list"
    THEN { e \in notesOf(p1) : e.src[1] = phist.src[1] }
    ELSE { e \in notesOf(<<part[Len(part)]>>) : e.src = phist.src }

\* C7 as claimed: after a merge, by mergePartList or by mergePartMeasure, every
\* slur number and voice number of the notes merged in is greater than every
\* slur number and voice number the part held before, and no slur number is
\* shared by two source voices (parts or overlays) of a part.
C7_LaterVoiceAboveAll ==
    /\ phist.kind # "none" =>
          \A e \in mergedNotes :
             /\ e.voice > phist.vnum_max
             /\ e.slur > 0 => e.slur > phist.slur_max
    /\ \A x, y \in notesOf(part) \cup notesOf(p1) :
          (x.src # y.src /\ x.slur > 0) => x.slur # y.slur

\* C7 amended: after mergePartList has merged a part p2 into p1, every slur
\* number and voice number of p2's notes is greater than every slur and voice
\* number p1 held before, so no two parts merged by mergePartList share a slur
\* or voice number; after mergePartMeasure has merged an overlay measure, its
\* slur numbers are greater than every slur number the part held before and its
\* notes carry voice number 1 + overlay number (which earlier measures may use).
C7_MergedNumbers ==
    /\ phist.kind = "list" =>
          /\ \A e \in mergedNotes :
                /\ e.voice > phist.vnum_max
                /\ e.slur > 0 => e.slur > phist.slur_max
          /\ \A x, y \in notesOf(p1) :
                x.src[1] # y.src[1] =>
                    /\ x.voice # y.voice
                    /\ x.slur > 0 => x.slur # y.slur
    /\ phist.kind = "overlay" =>
          \A e \in mergedNotes :
             /\ e.voice = 1 + phist.src[2]
             /\ e.slur > 0 => e.slur > phist.slur_max

\* C7 witness: a part with a slurred overlay in its second measure was merged
\* into a part that has an overlay and slurs of its own.
C7_Witness ==
    /\ phist.kind = "list"
    /\ \E e \in mergedNotes : e.slur > 0 /\ e.src[2] > 0
    /\ \E e \in notesOf(p1) : e.src[1] = 1 /\ e.src[2] > 0 /\ e.slur > 0
    /\ phist.vnum_max > 1

\* C27: in every part mkPart has returned and in the merged part the measures
\* carry the numbers 1, 2, ..., n in document order.
C27_MeasureNumbersConsecutive ==
    \A nums \in Range(mnum.parts) \cup {mnum.p1} :
        \A i \in 1 .. Len(nums) : nums[i] = i

(***************************************************************************)
(* The tune loop of the batch driver: convert -> MusicXml.parse for every  *)
(* tune of a file, all with the one MusicXml instance mxm.                 *)
(* A tune is a record:                                                     *)
(*   hdrOk   abc_header matches the header                                 *)
(*   udef    the header's U: field, <<symbol, decoration>>, or <<>>        *)
(*   pfmt    the index of the page-format item a directive sets, or 0      *)
(*   score   "none", or the %%score directive: "ok" when abc_scoredef      *)
(*           matches it, "bad" when it does not                            *)
(*   use     the symbol written before the tune's first note               *)
(* The page-format list is cut down to its items [1] and [2] (page height  *)
(* and page width); the score of a tune is cut down to the decoration its  *)
(* first note gets and the page format mkDefaults writes.                  *)
(***************************************************************************)
Syms == {"T", "W"}

Tunes ==
    [hdrOk : BOOLEAN,
     udef : {<<>>} \cup { <<y, "fermata">> : y \in Syms },
     pfmt : 0 .. 2,
     score : {"none", "ok", "bad"},
     use : Syms]

\* the page size a directive of the model sets, in millimeters (%%... 10cm)
PageValues == {100}

NoTune == [hdrOk |-> TRUE, udef |-> <<>>, pfmt |-> 0, score |-> "none", use |-> "T"]
NoDoc == [written |-> FALSE]

\* doHeaderField, type == 'U': s.usrSyms [value] = sym
setUsrSym(syms, t) ==
    IF t.udef = <<>> THEN syms
    ELSE [y \in DOMAIN syms \cup {t.udef[1]} |->
            IF y = t.udef[1] THEN t.udef[2] ELSE syms[y]]

\* readPfmt: s.pageFmtAbc [n] = float (x) * u
readPfmt(fmt, t) ==
    IF t.pfmt = 0 THEN fmt
    ELSE [fmt EXCEPT ![t.pfmt] = CHOOSE x \in PageValues : TRUE]

\* readPfmt: what s.pageFmtAbc is bound to after the tune's directives
bindPfmt(abc, t) == IF t.pfmt # 0 /\ abc = "empty" THEN "pageFmtDef" ELSE abc

\* the decoration of the tune's first note: s.usrSyms.get (d, d)
decoOf(syms, t) == IF t.use \in DOMAIN syms THEN syms[t.use] ELSE t.use

\* mkDefaults: nothing when s.pageFmtAbc is empty, else its items
mkDefaults(abc, fmt) == IF abc = "empty" THEN <<>> ELSE fmt

mkScore(syms, abc, fmt, t) == [deco |-> decoOf(syms, t), page |-> mkDefaults(abc, fmt)]

\* the class attributes as the class statement leaves them
ClassUSyms == [y \in {"T"} |-> "trill"]
ClassPageFmtDef == <<297, 210>>

\* the score of tune t converted by a fresh instance in a fresh process
freshScore(t) ==
    mkScore(setUsrSym(ClassUSyms, t), bindPfmt("empty", t),
            readPfmt(ClassPageFmtDef, t), t)

BatchInit ==
    /\ uSyms = ClassUSyms
    /\ pageFmtDef = ClassPageFmtDef
    /\ usrSyms = "uSyms"
    /\ pageFmtAbc = "empty"
    /\ staveDefs = <<>>
    /\ tune = NoTune
    /\ itune = 0
    /\ doc = NoDoc
    /\ reported = FALSE
    /\ before = <<ClassUSyms, ClassPageFmtDef>>
    /\ bpc = "idle"

\* the tune loop calls convert, convert calls mxm.parse, parse calls s.reset
convert ==
    /\ bpc = "idle"
    /\ itune < MaxTunes
    /\ tune' \in Tunes
    /\ usrSyms' = "uSyms"
    /\ pageFmtAbc' = "empty"
    /\ staveDefs' = <<>>
    /\ doc' = NoDoc
    /\ reported' = FALSE
    /\ before' = <<uSyms, pageFmtDef>>
    /\ bpc' = "header"
    /\ UNCHANGED <<uSyms, pageFmtDef, itune>>
    /\ UNCHANGED notBatch

\* parse: abc_header.parseString inside the try; the handler prints the line
\* and the caret line and raises again
parseHeader ==
    /\ bpc = "header"
    /\ IF tune.hdrOk
       THEN bpc' = "fields" /\ UNCHANGED reported
       ELSE bpc' = "raised" /\ reported' = TRUE
    /\ UNCHANGED <<uSyms, pageFmtDef, usrSyms, pageFmtAbc, staveDefs, tune,
                   itune, doc, before>>
    /\ UNCHANGED notBatch

\* parse: doHeaderField for every field of the header
doHeaderField ==
    /\ bpc = "fields"
    /\ usrSyms = "uSyms"
    /\ uSyms' = setUsrSym(uSyms, tune)
    /\ pageFmtAbc' = bindPfmt(pageFmtAbc, tune)
    /\ pageFmtDef' = IF pageFmtAbc' = "pageFmtDef" THEN readPfmt(pageFmtDef, tune)
                     ELSE pageFmtDef
    /\ staveDefs' = IF tune.score = "none" THEN <<>> ELSE <<tune.score>>
    /\ bpc' = "stavedef"
    /\ UNCHANGED <<usrSyms, tune, itune, doc, reported, before>>
    /\ UNCHANGED notBatch

\* parse: s.parseStaveDef, outside the try; abc_scoredef.parseString raises
\* ParseException on a directive it does not match
parseStaveDef ==
    /\ bpc = "stavedef"
    /\ IF staveDefs # <<>> /\ staveDefs[1] = "bad"
       THEN bpc' = "raised"
       ELSE bpc' = "score"
    /\ UNCHANGED <<uSyms, pageFmtDef, usrSyms, pageFmtAbc, staveDefs, tune,
                   itune, doc, reported, before>>
    /\ UNCHANGED notBatch

\* parse returns the score and convert writes the document
writeScore ==
    /\ bpc = "score"
    /\ usrSyms = "uSyms"
    /\ doc' = [written |-> TRUE, tune |-> tune,
               score |-> mkScore(uSyms, pageFmtAbc, pageFmtDef, tune)]
    /\ bpc' = "written"
    /\ UNCHANGED <<uSyms, pageFmtDef, usrSyms, pageFmtAbc, staveDefs, tune,
                   itune, reported, before>>
    /\ UNCHANGED notBatch

\* the tune loop: except ParseException: pass
exceptPass ==
    /\ bpc = "raised"
    /\ itune' = itune + 1
    /\ bpc' = "idle"
    /\ UNCHANGED <<uSyms, pageFmtDef, usrSyms, pageFmtAbc, staveDefs, tune,
                   doc, reported, before>>
    /\ UNCHANGED notBatch

\* the tune loop: on to the next tune
nextTune ==
    /\ bpc = "written"
    /\ itune' = itune + 1
    /\ bpc' = "idle"
    /\ UNCHANGED <<uSyms, pageFmtDef, usrSyms, pageFmtAbc, staveDefs, tune,
                   doc, reported, before>>
    /\ UNCHANGED notBatch

BatchNext ==
    \/ convert
    \/ parseHeader
    \/ doHeaderField
    \/ parseStaveDef
    \/ writeScore
    \/ exceptPass
    \/ nextTune

\* C8: no state crosses tune boundaries: every document the instance writes,
\* whatever tunes it converted or failed on before, holds the score a fresh
\* instance gives for the same tune.
C8_TuneIndependent == doc.written => doc.score = freshScore(doc.tune)

\* C9: a tune on which a grammar fails aborts only its own conversion: parse
\* has printed the offending line and the caret, no document was written, and
\* the tune left nothing behind for the tunes that follow.
C9_FailedTuneIsolated ==
    bpc = "raised" =>
        /\ reported
        /\ ~doc.written
        /\ <<uSyms, pageFmtDef>> = before

(***************************************************************************)
(* The voice grammar on a voice body of notes "C", barlines "|" and the    *)
(* character "#" that only the errors production matches:                  *)
(*   abc_voice = ZeroOrMore (measure) + Optional (noBarMeasure | ...)      *)
(*               + ... + StringEnd ()                                      *)
(* A parse action runs when its production matches, also inside a measure  *)
(* that fails later for want of a barline.                                 *)
(***************************************************************************)
Chars == {"C", "#", "|"}

RECURSIVE Texts(_)
Texts(n) ==
    IF n = 0 THEN {<<>>}
    ELSE Texts(n - 1) \cup { Append(x, c) : x \in Texts(n - 1), c \in Chars }

\* errorWarn cuts the line to 40 characters on both sides of the symbol
WindowHalf == 40

\* errorWarn (line, l, t) with the 0-based location l: the symbol, the first
\* position of the context window and the number of dashes before the caret
errorWarn(line, l, t) ==
    IF l > WindowHalf
    THEN [symbol |-> t, first |-> l - WindowHalf, caret |-> WindowHalf]
    ELSE [symbol |-> t, first |-> 0, caret |-> l]

ParseInit ==
    /\ text = <<>>
    /\ loc = 1
    /\ mstart = 1
    /\ elems = <<>>
    /\ tree = <<>>
    /\ diags = <<>>
    /\ ppc = "idle"

\* abc_voice.parseString (voice)
parseString ==
    /\ ppc \in {"idle", "done"}
    /\ text' \in Texts(MaxChars) \ {<<>>}
    /\ loc' = 1
    /\ mstart' = 1
    /\ elems' = <<>>
    /\ tree' = <<>>
    /\ diags' = <<>>
    /\ ppc' = "measure"
    /\ UNCHANGED notParse

\* element: a stem matches
element ==
    /\ ppc \in {"measure", "noBarMeasure"}
    /\ loc <= Len(text)
    /\ text[loc] = "C"
    /\ elems' = Append(elems, "C")
    /\ loc' = loc + 1
    /\ UNCHANGED <<text, mstart, tree, diags, ppc>>
    /\ UNCHANGED notParse

\* element: errors matches; its parse action errorWarn prints the diagnostic
\* and returns no token
errors ==
    /\ ppc \in {"measure", "noBarMeasure"}
    /\ loc <= Len(text)
    /\ text[loc] = "#"
    /\ diags' = Append(diags, errorWarn(text, loc - 1, text[loc]))
    /\ loc' = loc + 1
    /\ UNCHANGED <<text, mstart, elems, tree, ppc>>
    /\ UNCHANGED notParse

\* measure: bar_right closes the measure
bar_right ==
    /\ ppc = "measure"
    /\ loc <= Len(text)
    /\ text[loc] = "|"
    /\ tree' = Append(tree, elems)
    /\ elems' = <<>>
    /\ loc' = loc + 1
    /\ mstart' = loc + 1
    /\ UNCHANGED <<text, diags, ppc>>
    /\ UNCHANGED notParse

\* measure fails at the end of the text, where bar_right does not match:
\* ZeroOrMore (measure) ends and noBarMeasure starts where the measure started
measureFails ==
    /\ ppc = "measure"
    /\ loc > Len(text)
    /\ mstart <= Len(text)
    /\ loc' = mstart
    /\ elems' = <<>>
    /\ ppc' = "noBarMeasure"
    /\ UNCHANGED <<text, mstart, tree, diags>>
    /\ UNCHANGED notParse

\* StringEnd: after the last barline, or after the elements of noBarMeasure
stringEnd ==
    /\ loc > Len(text)
    /\ \/ /\ ppc = "measure"
          /\ mstart > Len(text)
          /\ UNCHANGED tree
       \/ /\ ppc = "noBarMeasure"
          /\ tree' = Append(tree, elems)
    /\ elems' = <<>>
    /\ ppc' = "done"
    /\ UNCHANGED <<text, loc, mstart, diags>>
    /\ UNCHANGED notParse

ParseNext ==
    \/ parseString
    \/ element
    \/ errors
    \/ bar_right
    \/ measureFails
    \/ stringEnd

\* the positions of the characters only the errors production matches
misplaced == { i \in 1 .. Len(text) : text[i] = "#" }

\* the notes of all measures of the tree
RECURSIVE notesIn(_)
notesIn(t) == IF t = <<>> THEN <<>> ELSE Head(t) \o notesIn(Tail(t))

\* C10: when the voice is parsed, every character that only the errors
\* production matches has produced exactly one diagnostic, with the character
\* as symbol and the caret under it, and the tree holds the other elements
\* as if the character were absent.
C10_OneDiagnosticEach ==
    ppc = "done" =>
        /\ \A i \in misplaced :
            Cardinality({ k \in 1 .. Len(diags) :
                diags[k] = errorWarn(text, i - 1, "#") }) = 1
        /\ Len(diags) = Cardinality(misplaced)
        /\ notesIn(tree) = SelectSeq(text, LAMBDA c : c = "C")

(***************************************************************************)
(* mkNote: the duration of a note.  n.dur.t is multiplied with the unit    *)
(* length of the voice and reduced, a denominator above 64 is rounded to   *)
(* 64ths, a whole-measure rest takes the duration of the measure.          *)
(***************************************************************************)
\* the unit lengths an L: field can set: any numerator, a denominator of typeMap
UnitLengths == {<<1, 8>>, <<1, 4>>, <<3, 8>>, <<1, 128>>, <<1, 256>>}

\* M: fields as written: beats and beat type
Meters == {<<6, 8>>, <<5, 3>>, <<2, 2>>}

\* n.dur.t of the notes and rests of the model, as note_length leaves them
DurLengths ==
    {<<1, 1>>, <<3, 2>>, <<1, 3>>, <<5, 1>>, <<3, 1>>, <<1, 16>>, <<1, 0>>,
     <<0, 1>>, <<7, 1>>}

\* the kinds of n: a note, a rest 'z', a whole-measure rest 'Z'
DurKinds == {"note", "z", "Z"}

\* the denominator above which mkNote rounds
MaxDen == 64

\* s.divisions: the xml duration of a quarter note
divisions == 120

\* a round that cuts off the fraction
roundDown(a, b, py3) == a \div b

\* round (float (a) / b) for a >= 0, b > 0: ties go to the even number under
\* Python 3 and away from zero under Python 2
round(a, b, py3) ==
    LET q == a \div b
        r == a % b
    IN IF 2 * r < b THEN q
       ELSE IF 2 * r > b THEN q + 1
       ELSE IF py3 /\ q % 2 = 0 THEN q ELSE q + 1

\* mkNote, lines 823-833: the duration (num, den) and the xml duration dvs
noteDur(kind, dur, intrem, unitL, msre, py3) ==
    LET nnum == IF intrem THEN dur[1] + dur[1] ELSE dur[1]
        nden == IF dur[2] = 0 THEN 1 ELSE dur[2]
        nd == simplify(nnum * unitL[1], nden * unitL[2])
        small == nd[2] > MaxDen
        k == round(MaxDen * nd[1], nd[2], py3)
        rd == IF small THEN simplify(IF k > 1 THEN k ELSE 1, MaxDen) ELSE nd
        fd == IF kind = "Z" THEN msre ELSE rd
    IN [kind |-> kind, dur |-> dur, intrem |-> intrem, unitL |-> unitL,
        num |-> fd[1], den |-> fd[2], small |-> small,
        dvs |-> (4 * divisions * fd[1]) \div fd[2]]

NoNote == noteDur("z", <<0, 1>>, FALSE, <<1, 8>>, <<4, 4>>, TRUE)

DurInit ==
    /\ unitLcur = <<1, 8>>
    /\ mdur = <<4, 4>>
    /\ python3 = TRUE
    /\ xnt = NoNote
    /\ dpc = "idle"

\* the interpreter starts; mkPart: s.unitLcur = s.unitL, set by the header
durVoice ==
    /\ dpc = "idle"
    /\ python3' \in BOOLEAN
    /\ unitLcur' \in UnitLengths
    /\ dpc' = "voice"
    /\ UNCHANGED <<mdur, xnt>>
    /\ UNCHANGED notDur

\* doFields, L: field in the body
doFieldL ==
    /\ dpc = "voice"
    /\ unitLcur' \in UnitLengths
    /\ UNCHANGED <<mdur, python3, xnt, dpc>>
    /\ UNCHANGED notDur

\* doFields, M: field: s.mdur = simplify (eval (beats), int (btype))
doFieldM ==
    /\ dpc = "voice"
    /\ \E m \in Meters : mdur' = simplify(m[1], m[2])
    /\ UNCHANGED <<unitLcur, python3, xnt, dpc>>
    /\ UNCHANGED notDur

\* mkNote on a note or rest, inside or outside a tremolo pair
mkNoteDur ==
    /\ dpc = "voice"
    /\ \E kind \in DurKinds, dur \in DurLengths, tr \in BOOLEAN :
          xnt' = noteDur(kind, dur, tr, unitLcur, mdur, python3)
    /\ UNCHANGED <<unitLcur, mdur, python3, dpc>>
    /\ UNCHANGED notDur

DurNext ==
    \/ durVoice
    \/ doFieldL
    \/ doFieldM
    \/ mkNoteDur

\* the fraction that went into the normalisation: n.dur.t, doubled in a
\* tremolo pair, times the unit length
inNum == (IF xnt.intrem THEN 2 * xnt.dur[1] ELSE xnt.dur[1]) * xnt.unitL[1]
inDen == (IF xnt.dur[2] = 0 THEN 1 ELSE xnt.dur[2]) * xnt.unitL[2]
outIsIn == xnt.num * inDen = xnt.den * inNum
emitted == dpc = "voice" /\ xnt # NoNote

\* C11 as claimed: the duration of every emitted note has a denominator that
\* is a power of two not exceeding 64.
C11_PowerOfTwoTo64 == emitted => xnt.den \in PowersOfTwoTo64

\* C11: for every emitted note or rest other than a whole-measure rest the
\* duration is in lowest terms with a denominator of at most 64; it is the
\* product of the written duration and the unit length when that product in
\* lowest terms has a denominator of at most 64 (whether a power of two or
\* not), and otherwise it is max (1, k) / 64 reduced, k a nearest integer to
\* 64 * num / den, the diagnostic is emitted and the denominator is a power
\* of two.
C11_DenominatorCapped ==
    (emitted /\ xnt.kind # "Z") =>
        /\ xnt.den >= 1 /\ xnt.den <= 64
        /\ gcdLoop(xnt.num, xnt.den) = 1
        /\ IF xnt.small
           THEN /\ inDen \div gcdLoop(inNum, inDen) > 64
                /\ xnt.den \in PowersOfTwoTo64
                /\ \E k \in 0 .. 64 * inNum :
                      /\ 2 * (64 * inNum - k * inDen) <= inDen
                      /\ 2 * (k * inDen - 64 * inNum) <= inDen
                      /\ xnt.num * 64 = (IF k > 1 THEN k ELSE 1) * xnt.den
           ELSE /\ inDen \div gcdLoop(inNum, inDen) <= 64
                /\ outIsIn

\* C11 witness: a note was rounded to 64ths, away from its exact value
C11_Witness ==
    /\ emitted
    /\ xnt.kind = "note"
    /\ xnt.small
    /\ ~outIsIn
    /\ xnt.num > 1

(***************************************************************************)
(* doFields: the attributes element of a measure.  A field is a record     *)
(* [ftype, clef, trans, lines]: its type, the clef its text names ("" for  *)
(* none), whether its text holds a transpose and whether it holds          *)
(* stafflines=.  An element of the attributes block is                     *)
(* <<order number, tag, content>>.                                         *)
(***************************************************************************)
\* largest number of fields in a field map
MaxFields == 3

Clefs == {"", "bass", "treble"}

Fields ==
    { [ftype |-> "Div", clef |-> "", trans |-> FALSE, lines |-> FALSE],
      [ftype |-> "M", clef |-> "", trans |-> FALSE, lines |-> FALSE],
      [ftype |-> "I", clef |-> "", trans |-> TRUE, lines |-> FALSE] }
    \cup { [ftype |-> t, clef |-> c, trans |-> tr, lines |-> sl] :
              t \in {"K", "V"}, c \in Clefs, tr \in BOOLEAN, sl \in BOOLEAN }

\* doClef: the elements a K: or V: field adds: its clef, then its transpose,
\* then its staff-details
doClef(f) ==
    (IF f.clef = "" THEN <<>> ELSE << <<7, "clef", f.clef>> >>)
    \o (IF f.trans THEN << <<9, "transpose", "">> >> ELSE <<>>)
    \o (IF f.lines THEN << <<8, "staff-details", "">> >> ELSE <<>>)

\* the elements one field appends to atts
fieldAtts(f) ==
    IF f.ftype = "Div" THEN << <<1, "divisions", "">> >>
    ELSE IF f.ftype = "M" THEN << <<3, "time", "">> >>
    ELSE IF f.ftype = "K" THEN << <<2, "key", "">> >> \o doClef(f)
    ELSE IF f.ftype = "V" THEN doClef(f)
    ELSE IF f.trans THEN << <<9, "transpose", "">> >> ELSE <<>>

\* for ftype, field in fieldmap.items (): ... atts.append
RECURSIVE collectAtts(_)
collectAtts(fm) == IF fm = <<>> THEN <<>> ELSE fieldAtts(Head(fm)) \o collectAtts(Tail(fm))

\* sorted (atts, key=lambda x: x[0]): elements of equal order number keep
\* the order they have in atts
RECURSIVE sortedFrom(_, _)
sortedFrom(atts, k) ==
    IF k > 9 THEN <<>>
    ELSE SelectSeq(atts, LAMBDA x : x[1] = k) \o sortedFrom(atts, k + 1)

\* the block without the sort: the elements as the fields appended them
unsortedAtts(atts) == atts

sortedAtts(atts) == sortedFrom(atts, 1)

\* the clef of the last field with a clef, or the clef before
RECURSIVE lastClef(_, _)
lastClef(fm, c) ==
    IF fm = <<>> THEN c
    ELSE lastClef(Tail(fm), IF Head(fm).clef # "" /\ Head(fm).ftype \in {"K", "V"}
                            THEN Head(fm).clef ELSE c)

FieldInit ==
    /\ fieldmap = <<>>
    /\ att = <<>>
    /\ curClef = "treble"
    /\ fpc = "fields"

\* a field is put into the map: the map yields it at any place of its order
\* (insertion order under Python 3, hash order under Python 2)
setField ==
    /\ fpc = "fields"
    /\ Len(fieldmap) < MaxFields
    /\ \E f \in Fields, i \in 0 .. Len(fieldmap) :
          /\ \A j \in 1 .. Len(fieldmap) : fieldmap[j].ftype # f.ftype
          /\ fieldmap' = SubSeq(fieldmap, 1, i) \o <<f>>
                            \o SubSeq(fieldmap, i + 1, Len(fieldmap))
    /\ UNCHANGED <<att, curClef, fpc>>
    /\ UNCHANGED notField

\* doFields (maat, fieldmap, lev)
doFields ==
    /\ fpc = "fields"
    /\ fieldmap # <<>>
    /\ att' = sortedAtts(collectAtts(fieldmap))
    /\ curClef' = lastClef(fieldmap, curClef)
    /\ fpc' = "done"
    /\ UNCHANGED fieldmap
    /\ UNCHANGED notField

\* the next measure, the next field map
nextFields ==
    /\ fpc = "done"
    /\ fieldmap' = <<>>
    /\ att' = <<>>
    /\ fpc' = "fields"
    /\ UNCHANGED curClef
    /\ UNCHANGED notField

FieldNext ==
    \/ setField
    \/ doFields
    \/ nextFields

\* the field maps that hold the fields of fieldmap in any order
sameFields ==
    { fm \in [1 .. Len(fieldmap) -> Fields] :
        { fm[i] : i \in 1 .. Len(fm) } = { fieldmap[i] : i \in 1 .. Len(fieldmap) } }

\* C12: the attributes block depends on the fields only, not on the order in
\* which the map yields them: every map with the same fields gives the block
\* doFields made.
C12_OrderByKindOnly ==
    fpc = "done" => \A fm \in sameFields : sortedAtts(collectAtts(fm)) = att

\* the places of the elements with a tag in the attributes block
placesOf(tag) == { i \in 1 .. Len(att) : att[i][2] = tag }

\* every element tagged a stands before every element tagged b
allBefore(a, b) == \A i \in placesOf(a), j \in placesOf(b) : i < j

\* C21: in an attributes block the elements appear in the order time, key,
\* clef, transpose, staff-details.
C21_TimeKeyClefTransposeDetails ==
    fpc = "done" =>
        /\ allBefore("time", "key")
        /\ allBefore("key", "clef")
        /\ allBefore("clef", "transpose")
        /\ allBefore("transpose", "staff-details")

\* C21: in an attributes block the elements appear in the order divisions,
\* key, time, clef, staff-details, transpose (the order numbers 1, 2, 3, 7,
\* 8, 9), whatever the order of the fields.
C21_AttributesOrder ==
    fpc = "done" =>
        /\ allBefore("divisions", "key")
        /\ allBefore("key", "time")
        /\ allBefore("time", "clef")
        /\ allBefore("clef", "staff-details")
        /\ allBefore("staff-details", "transpose")

\* C21 witness: a block with a time, a key, a clef, a transpose and a
\* staff-details element, made from fields that appended them otherwise
C21_Witness ==
    /\ fpc = "done"
    /\ \A tag \in {"time", "key", "clef", "transpose", "staff-details"} :
          placesOf(tag) # {}
    /\ collectAtts(fieldmap) # att

(***************************************************************************)
(* splitHeaderVoices, lines 512-531, and the voices in parse.  The text    *)
(* after the header is one line of pieces separated by blanks:             *)
(*   "abc"    music text without brackets                                  *)
(*   "V1"     the field [V:1], "V2" the field [V:2], "V" the field [V:]    *)
(*   "Vopen"  the text "[V:3 " that no bracket closes within the piece     *)
(*   "fld"    an inline field other than V:, as [M:3/4]                     *)
(***************************************************************************)
\* largest number of pieces of a tune body
MaxPieces == 3

Pieces == {"abc", "V1", "V2", "V", "Vopen", "fld"}

RECURSIVE Bodies(_)
Bodies(n) ==
    IF n = 0 THEN {<<>>}
    ELSE Bodies(n - 1) \cup { Append(x, c) : x \in Bodies(n - 1), c \in Pieces }

closedV(c) == c \in {"V1", "V2", "V"}

\* abctext.split ('[V:') and the text before the first '[V:': is '[V:1]' put
\* in front
prependV1(b) ==
    \/ \A i \in 1 .. Len(b) : b[i] \in {"abc", "fld"}
    \/ \E i \in 1 .. Len(b) :
          /\ b[i] = "abc"
          /\ \A j \in 1 .. i - 1 : b[j] \in {"abc", "fld"}

\* the id of a V: field; a field without id becomes voice '1'
voiceId(c) == IF c = "V2" THEN "2" ELSE IF c = "Vopen" THEN "3" ELSE "1"

\* the first piece from position i on that holds a ']', or 0
RECURSIVE nextClose(_, _)
nextClose(b, i) ==
    IF i > Len(b) THEN 0
    ELSE IF closedV(b[i]) \/ b[i] = "fld" THEN i ELSE nextClose(b, i + 1)

\* re.split (r'(\[V:[^]]*\])', abctext) and the loop over xs[i:i+2]: the
\* (id, text) pairs in document order; segs holds the pairs so far, the last
\* of them being the open one
RECURSIVE splitV(_, _, _)
splitV(b, i, segs) ==
    IF i > Len(b) THEN segs
    ELSE IF closedV(b[i])
    THEN splitV(b, i + 1, Append(segs, [id |-> voiceId(b[i]), abc |-> <<>>]))
    ELSE IF b[i] = "Vopen" /\ nextClose(b, i) # 0
    THEN splitV(b, nextClose(b, i) + 1,
                Append(segs, [id |-> voiceId(b[i]), abc |-> <<>>]))
    ELSE IF segs = <<>> THEN splitV(b, i + 1, segs)
    ELSE splitV(b, i + 1,
                [segs EXCEPT ![Len(segs)].abc = Append(@, b[i])])

\* the pieces where r'\[V:[^]]*\]' can match
vFields(b) ==
    { i \in 1 .. Len(b) :
         closedV(b[i]) \/ (b[i] = "Vopen" /\ nextClose(b, i) # 0) }

\* len (xs) == 1: no V: field in the text: raise ValueError ('bugs ...')
splitRaises(b) ==
    /\ ~prependV1(b)
    /\ vFields(b) = {}

\* the (id, text) pairs as they come, not collected per voice id
pairsAsSplit(segs, out) == segs

\* vmap and vorder: the text of each voice id, ids in order of first occurrence
RECURSIVE joinVoices(_, _)
joinVoices(segs, out) ==
    IF segs = <<>> THEN out
    ELSE LET h == Head(segs)
             at == { k \in 1 .. Len(out) : out[k].id = h.id }
         IN IF at = {}
            THEN joinVoices(Tail(segs), Append(out, h))
            ELSE joinVoices(Tail(segs),
                    [out EXCEPT ![CHOOSE k \in at : TRUE].abc = @ \o h.abc])

\* header += xs[0]: the text between K: and the first V: field
headerText(b) ==
    IF prependV1(b) THEN <<>>
    ELSE SubSeq(b, 1, (CHOOSE i \in vFields(b) :
                           \A j \in vFields(b) : i <= j) - 1)

splitHeaderVoices(b) ==
    joinVoices(splitV(b, 1, IF prependV1(b) THEN <<[id |-> "1", abc |-> <<>>]>>
                            ELSE <<>>), <<>>)

SplitInit ==
    /\ body = <<>>
    /\ voices = <<>>
    /\ hdr = <<>>
    /\ ps = <<>>
    /\ scoreParts = <<>>
    /\ rejected = 0
    /\ spc = "idle"

\* parse: header, voices = splitHeaderVoices (abctext)
splitActn ==
    /\ spc \in {"idle", "done", "raised"}
    /\ \E b \in Bodies(MaxPieces) :
          /\ body' = b
          /\ IF splitRaises(b)
             THEN voices' = <<>> /\ hdr' = <<>> /\ spc' = "raised"
             ELSE /\ voices' = splitHeaderVoices(b)
                  /\ hdr' = headerText(b)
                  /\ spc' = "split"
    /\ ps' = <<>>
    /\ scoreParts' = <<>>
    /\ rejected' = 0
    /\ UNCHANGED notSplit

\* parse: the next voice: abc_voice.parseString, and the placeholder measure
\* [[pObj ('inline', ['I', 'empty voice'])]] when it has no measure
parseVoice ==
    /\ spc = "split"
    /\ Len(ps) < Len(voices)
    /\ LET v == voices[Len(ps) + 1]
       IN ps' = Append(ps, [id |-> v.id, placeholder |-> v.abc = <<>>])
    /\ spc' = IF Len(ps') = Len(voices) THEN "parsed" ELSE "split"
    /\ UNCHANGED <<body, voices, hdr, scoreParts, rejected>>
    /\ UNCHANGED notSplit

\* parse: mkPart for the next voice; doField_I rejects the placeholder with
\* 'skipped I-field: empty voice'
mkPartVoice ==
    /\ spc = "parsed"
    /\ Len(scoreParts) < Len(ps)
    /\ LET v == ps[Len(scoreParts) + 1]
       IN /\ scoreParts' = Append(scoreParts, v.id)
          /\ rejected' = IF v.placeholder THEN rejected + 1 ELSE rejected
    /\ UNCHANGED <<body, voices, hdr, ps, spc>>
    /\ UNCHANGED notSplit

\* parse returns the score
returnScore ==
    /\ spc = "parsed"
    /\ Len(scoreParts) = Len(ps)
    /\ spc' = "done"
    /\ UNCHANGED <<body, voices, hdr, ps, scoreParts, rejected>>
    /\ UNCHANGED notSplit

SplitNext ==
    \/ splitActn
    \/ parseVoice
    \/ mkPartVoice
    \/ returnScore

\* C13: no exception is raised; splitHeaderVoices returns at least one voice
\* for every text; a voice without measures gets the placeholder, which the
\* emitter rejects, and the score has one part per voice.
C13_NeverCrashes ==
    /\ spc # "raised"
    /\ spc \in {"split", "parsed", "done"} => Len(voices) >= 1
    /\ spc = "done" =>
          /\ Len(scoreParts) = Len(voices)
          /\ \A i \in 1 .. Len(voices) : scoreParts[i] = voices[i].id
          /\ rejected = Cardinality({ i \in 1 .. Len(voices) : voices[i].abc = <<>> })

\* every '[V:' of the body is closed by its own bracket
closedFields == \A i \in 1 .. Len(body) : body[i] # "Vopen"

\* the positions of the V: fields before position i
fieldsBefore(i) == { j \in 1 .. i - 1 : closedV(body[j]) }

\* who gets position i of the body, the text before any V: field going to lead
ownerOf(i, lead) ==
    IF closedV(body[i]) THEN voiceId(body[i])
    ELSE IF fieldsBefore(i) = {} THEN lead
    ELSE voiceId(body[CHOOSE j \in fieldsBefore(i) :
                          \A k \in fieldsBefore(i) : k <= j])

\* the text pieces of owner id, in the order of the body
textOf(id, lead) ==
    LET at == { i \in 1 .. Len(body) : ~closedV(body[i]) /\ ownerOf(i, lead) = id }
    IN [k \in 1 .. Cardinality(at) |->
           body[CHOOSE i \in at : Cardinality({ j \in at : j <= i }) = k]]

\* the first position of the body that owner id gets
firstBodyOf(id, lead) ==
    CHOOSE i \in 1 .. Len(body) :
        /\ ownerOf(i, lead) = id
        /\ \A j \in 1 .. i - 1 : ownerOf(j, lead) # id

\* the voices returned are the owners of the body, each once, in the order of
\* their first positions, each with its text
voicesBy(lead) ==
    /\ { voices[k].id : k \in 1 .. Len(voices) } =
          { ownerOf(i, lead) : i \in 1 .. Len(body) } \ {"header"}
    /\ \A k, l \in 1 .. Len(voices) :
          k < l => /\ voices[k].id # voices[l].id
                   /\ firstBodyOf(voices[k].id, lead) < firstBodyOf(voices[l].id, lead)
    /\ \A k \in 1 .. Len(voices) : voices[k].abc = textOf(voices[k].id, lead)

musicLeads ==
    \E i \in 1 .. Len(body) : body[i] = "abc" /\ fieldsBefore(i) = {}

MaxBroken == 5

\* note_length of a stem written without a length and with a single slash
StemLengths == {note_length(1, 0, DefaultDen), note_length(1, 1, DefaultDen)}

\* note.setParseAction / rest.setParseAction: one more stem in the measure
stemActn ==
    /\ mpc = "parsing"
    /\ Len(maat) < MaxBroken
    /\ \E n \in {"note", "rest"}, d \in StemLengths :
          maat' = Append(maat, pObj(n, d, "", <<>>, FALSE, 0))
    /\ UNCHANGED <<maatIn, maatBrk, brkCalls, mpc>>
    /\ UNCHANGED notMaat

\* broken.setParseAction (lambda t: pObj ('broken', t)): one more marker
markerActn ==
    /\ mpc = "parsing"
    /\ Len(maat) < MaxBroken
    /\ \E b \in BrokenSyms :
          maat' = Append(maat, pObj("broken", <<0, 0>>, b, <<>>, FALSE, 0))
    /\ UNCHANGED <<maatIn, maatBrk, brkCalls, mpc>>
    /\ UNCHANGED notMaat

BrokenNext ==
    \/ stemActn
    \/ markerActn
    \/ doMaat

\* the duration d scaled by n/m and reduced
scaled(d, n, m) == simplify(n * num(d), m * den(d))

\* C14 as claimed: every marker '>', '<', '>>' or '<<' that stands between two
\* stems rescales exactly those two stems: one doBroken call is made for it,
\* on the stem just before it (also when that stem is the right stem of an
\* earlier marker, as B in A>B>C) and the stem just after it, with the factors
\* 3/2 and 1/2, 1/2 and 3/2, 7/4 and 1/4, 1/4 and 7/4, the results reduced;
\* two unit-length stems joined by '>' end as 3/2 and 1/2 of the unit.
C14_NearestStemsRescaled ==
    mpc = "done" =>
        /\ \A i \in JoiningMarkers :
              LET f == brokenFactors(maatIn[i].brk) IN
              \E k \in 1 .. Len(brkCalls) :
                  LET c == brkCalls[k] IN
                  /\ c.brk = maatIn[i].brk
                  /\ c.prev = i - 1
                  /\ c.x = i + 1
                  /\ c.r1 = scaled(c.d1, f[1], f[2])
                  /\ c.r2 = scaled(c.d2, f[3], f[4])
        /\ (/\ Len(maatIn) = 3
            /\ maatIn[1].name \in StemNames /\ maatIn[1].dur = <<1, 1>>
            /\ maatIn[2].name = "broken" /\ maatIn[2].brk = ">"
            /\ maatIn[3].name \in StemNames /\ maatIn[3].dur = <<1, 1>>)
               => (maatBrk[1].dur = <<3, 2>> /\ maatBrk[2].dur = <<1, 2>>)

(***************************************************************************)
(* The alteration of a note: MusicXml.mkPitch for a voice without          *)
(* percussion map, with the tie table as mkNote and doNotations keep it.   *)
(* A pitch is the step as written; the octave is 0 throughout, so a step   *)
(* stands for the pair (note, oct) and for the pair (nUp, octnum).         *)
(***************************************************************************)
\* the steps of the notes of the voice
Steps == {"F", "B"}

\* the accidental written before a note, "" for none
Accidentals == {"", "^", "_", "="}

\* alterTab = {'=':'0', '_':'-1', '^':'1'}
alterTab(acc) ==
    CASE acc = "=" -> "0"
      [] acc = "_" -> "-1"
      [] acc = "^" -> "1"

\* accs = ['F','C','G','D','A','E','B']
accs == <<"F", "C", "G", "D", "A", "E", "B">>

\* the keys of the voice, as their number of fifths: F, C and G major
Fifths == {-1, 0, 1}

\* dict (zip (accs[:fifths], fifths * ['1'])) or
\* dict (zip (accs[fifths:], -fifths * ['-1']))
keyAltsOf(fifths) ==
    LET ks == IF fifths >= 0
              THEN { accs[i] : i \in 1 .. fifths }
              ELSE { accs[i] : i \in Len(accs) + fifths + 1 .. Len(accs) }
    IN [k \in ks |-> IF fifths >= 0 THEN "1" ELSE "-1"]

\* del d[k] for the keys in ks
without(d, ks) == [k \in DOMAIN d \ ks |-> d[k]]

\* mkPitch: the alteration of the note and the new s.msreAlts
mkPitch(tt, ms, ks, ov, acc, note) ==
    IF note \in DOMAIN tt
    THEN [alter |-> IF tt[note].vnum = ov THEN tt[note].alter ELSE "",
          msreAlts |-> ms]
    ELSE IF acc # ""
    THEN [alter |-> alterTab(acc), msreAlts |-> (note :> alterTab(acc)) @@ ms]
    ELSE IF note \in DOMAIN ms
    THEN [alter |-> ms[note], msreAlts |-> ms]
    ELSE IF note \in DOMAIN ks
    THEN [alter |-> ks[note], msreAlts |-> ms]
    ELSE [alter |-> "", msreAlts |-> ms]

\* doNotations on a plain note: the ties of this overlay on another pitch are
\* deleted, a tie that stops is deleted, a tie that starts is entered
doTies(tt, ov, note, tie, alter) ==
    LET bad == { p \in DOMAIN tt : tt[p].vnum = ov /\ p # note }
        tstop == note \in DOMAIN tt /\ tt[note].vnum = ov
        t1 == without(tt, bad)
        t2 == IF tstop THEN without(t1, {note}) ELSE t1
    IN IF tie THEN (note :> [alter |-> alter, vnum |-> ov]) @@ t2 ELSE t2

\* the entry of d at k, "none" where it has none
entry(d, k) == IF k \in DOMAIN d THEN d[k] ELSE "none"

NoPitch ==
    [acc |-> "", note |-> "", alter |-> "", tied |-> "none", other |-> FALSE,
     msre |-> "none", key |-> "none"]

\* MusicXml.reset
PitchInit ==
    /\ keyAlts = <<>>
    /\ msreAlts = <<>>
    /\ tieAlts = <<>>
    /\ pitchOvl = 0
    /\ pnote = NoPitch
    /\ pvce = 0
    /\ pmsr = 0
    /\ pnelm = 0
    /\ pitpc = "idle"

\* mkPart up to the first note of its first measure
pitchPart ==
    /\ pitpc = "idle"
    /\ pvce < MaxVoices
    /\ pvce' = pvce + 1
    /\ pitchOvl' = 0
    /\ msreAlts' = <<>>
    /\ pmsr' = 1 /\ pnelm' = 0
    /\ pitpc' = "voice"
    /\ UNCHANGED <<keyAlts, tieAlts, pnote>>
    /\ UNCHANGED notPitch

\* doFields on a K: field
pitchKey ==
    /\ pitpc = "voice"
    /\ \E f \in Fifths : keyAlts' = keyAltsOf(f)
    /\ UNCHANGED <<msreAlts, tieAlts, pitchOvl, pnote, pvce, pmsr, pnelm, pitpc>>
    /\ UNCHANGED notPitch

\* mkMeasure, x.name == 'note': mkNote on a plain note
pitchNote ==
    /\ pitpc = "voice"
    /\ pnelm < MaxElems
    /\ \E acc \in Accidentals, note \in Steps, tie \in BOOLEAN :
          LET r == mkPitch(tieAlts, msreAlts, keyAlts, pitchOvl, acc, note)
              mine == note \in DOMAIN tieAlts /\ tieAlts[note].vnum = pitchOvl
          IN /\ msreAlts' = r.msreAlts
             /\ tieAlts' = doTies(tieAlts, pitchOvl, note, tie, r.alter)
             /\ pnote' = [acc |-> acc, note |-> note, alter |-> r.alter,
                          tied |-> IF mine THEN tieAlts[note].alter ELSE "none",
                          other |-> note \in DOMAIN tieAlts /\ ~mine,
                          msre |-> entry(msreAlts, note),
                          key |-> entry(keyAlts, note)]
    /\ pnelm' = pnelm + 1
    /\ UNCHANGED <<keyAlts, pitchOvl, pvce, pmsr, pitpc>>
    /\ UNCHANGED notPitch

\* mkPart's loop: the measure ended with or without '&', the next one starts
pitchMeasure ==
    /\ pitpc = "voice"
    /\ pmsr < MaxMeasures
    /\ \E ovl \in BOOLEAN :
          pitchOvl' = IF ovl THEN pitchOvl + 1 ELSE 0
    /\ msreAlts' = <<>>
    /\ pmsr' = pmsr + 1 /\ pnelm' = 0
    /\ UNCHANGED <<keyAlts, tieAlts, pnote, pvce, pitpc>>
    /\ UNCHANGED notPitch

\* mkPart returns
pitchEnd ==
    /\ pitpc = "voice"
    /\ pitpc' = "idle"
    /\ UNCHANGED <<keyAlts, msreAlts, tieAlts, pitchOvl, pnote, pvce, pmsr, pnelm>>
    /\ UNCHANGED notPitch

PitchNext ==
    \/ pitchPart
    \/ pitchKey
    \/ pitchNote
    \/ pitchMeasure
    \/ pitchEnd

\* the alteration the rule of precedence gives the last note
ruledAlter ==
    IF pnote.tied # "none" THEN pnote.tied
    ELSE IF pnote.acc # "" THEN alterTab(pnote.acc)
    ELSE IF pnote.msre # "none" THEN pnote.msre
    ELSE IF pnote.key # "none" THEN pnote.key
    ELSE ""

\* C16 as claimed: the alteration of a note is that of the tie open on its pitch
\* in the current overlay, else that of its own accidental, else the one set
\* earlier in the measure on its step and octave, else that of the key, else
\* none; a tie open on its pitch in another overlay changes nothing.
C16_AlterPrecedence ==
    pnote.note # "" => pnote.alter = ruledAlter

(***************************************************************************)
(* Tuplets: the 'tup' branch of mkMeasure and the tuplet code of mkNote    *)
(* and cmpNormType.  A note of the measure is "real", "chord" (a chord     *)
(* note after the first) or "grace"; dvs0 is its duration in divisions     *)
(* before the tuplet is applied.                                           *)
(***************************************************************************)
\* the elements of one measure
MaxTupElems == 4

\* the tokens of a tuplet-start: (2, (3 and (3:2:2
TupStarts == {<<2>>, <<3>>, <<3, 2, 2>>}

\* the durations of notes written after L:1/4 without a length, with '/' and
\* with the length 0: 4 * s.divisions * num // den
NoteDvs ==
    { noteDur("note", d, FALSE, <<1, 4>>, <<4, 4>>, TRUE).dvs :
        d \in {<<1, 1>>, <<1, 2>>, <<0, 1>>} }

tupElem(n, into, nts) ==
    [name |-> "tup", n |-> n, into |-> into, nts |-> nts, kind |-> "", dvs0 |-> 0,
     dvs |-> 0, tmod |-> <<>>, tupnotation |-> ""]

noteElem(kind, dvs0, dvs, tmod, tupnotation) ==
    [name |-> "note", n |-> 0, into |-> 0, nts |-> 0, kind |-> kind, dvs0 |-> dvs0,
     dvs |-> dvs, tmod |-> tmod, tupnotation |-> tupnotation]

\* mkMeasure, x.name == 'tup': n, into, nts from the tokens
tupTokens(t) ==
    LET n == t[1]
        into0 == IF Len(t) = 3 THEN t[2] ELSE 0
        nts0 == IF Len(t) = 3 THEN t[3] ELSE 0
        into == IF into0 = 0 THEN (IF n \in {2, 4, 8} THEN 3 ELSE 2) ELSE into0
        nts == IF nts0 = 0 THEN n ELSE nts0
    IN <<n, into, nts>>

\* cmpNormType leaves everything but the buffer: s.tupnts = []
cmpNormType(buf) == <<>>

\* mkNote, the tuplet code: the counter, the buffer and the note emitted
mkNoteTup(cnt, buf, tnum, tden, kind, dvs0) ==
    LET cnt1 == IF cnt >= 0 /\ kind = "real" THEN cnt - 1 ELSE cnt
        dvsA == IF kind = "grace" THEN 0 ELSE dvs0
        rdvs == IF kind = "real" THEN dvs0 ELSE 0
        dvs == IF cnt1 >= 0 THEN (dvsA * tden) \div tnum ELSE dvsA
        start == cnt1 > 0 /\ buf = <<>>
        stop == cnt1 = 0 /\ rdvs # 0
        buf1 == IF cnt1 >= 0 THEN Append(buf, rdvs) ELSE buf
        buf2 == IF cnt1 = 0 THEN cmpNormType(buf1) ELSE buf1
    IN [cnt |-> cnt1, buf |-> buf2,
        note |-> noteElem(kind, dvs0, dvs,
                          IF cnt1 >= 0 THEN <<tnum, tden>> ELSE <<>>,
                          IF cnt1 < 0 THEN ""
                          ELSE IF stop THEN "stop" ELSE IF start THEN "start" ELSE "")]

\* MusicXml.reset
TupInit ==
    /\ tmnum = 0
    /\ tmden = 0
    /\ tupCnt = 0
    /\ tupBuf = <<>>
    /\ telems = <<>>
    /\ tevent = ""
    /\ tmsr = 0
    /\ tpc = "idle"

\* mkMeasure up to its first element: s.ntup = -1
tupMeasure ==
    /\ tmsr < MaxMeasures
    /\ tmsr' = tmsr + 1
    /\ tupCnt' = -1
    /\ telems' = <<>>
    /\ tevent' = ""
    /\ tpc' = "voice"
    /\ UNCHANGED <<tmnum, tmden, tupBuf>>
    /\ UNCHANGED notTup

\* mkMeasure, x.name == 'tup'
tupStart ==
    /\ tpc = "voice"
    /\ Len(telems) < MaxTupElems
    /\ \E t \in TupStarts :
          LET r == tupTokens(t) IN
          /\ tmnum' = r[1]
          /\ tmden' = r[2]
          /\ tupCnt' = r[3]
          /\ telems' = Append(telems, tupElem(r[1], r[2], r[3]))
    /\ tevent' = "tup"
    /\ UNCHANGED <<tupBuf, tmsr, tpc>>
    /\ UNCHANGED notTup

\* mkMeasure, x.name == 'note' or 'rest': a note, a rest or a grace note
tupNote ==
    /\ tpc = "voice"
    /\ Len(telems) < MaxTupElems
    /\ \E kind \in {"real", "grace"}, d \in NoteDvs :
          LET r == mkNoteTup(tupCnt, tupBuf, tmnum, tmden, kind, d) IN
          /\ tupCnt' = r.cnt
          /\ tupBuf' = r.buf
          /\ telems' = Append(telems, r.note)
    /\ tevent' = "note"
    /\ UNCHANGED <<tmnum, tmden, tmsr, tpc>>
    /\ UNCHANGED notTup

\* mkMeasure on a chord note after the first: it follows a note of its chord
tupChordNote ==
    /\ tpc = "voice"
    /\ Len(telems) < MaxTupElems
    /\ telems # <<>>
    /\ telems[Len(telems)].kind \in {"real", "chord"}
    /\ LET r == mkNoteTup(tupCnt, tupBuf, tmnum, tmden, "chord",
                          telems[Len(telems)].dvs0) IN
          /\ tupCnt' = r.cnt
          /\ tupBuf' = r.buf
          /\ telems' = Append(telems, r.note)
    /\ tevent' = "note"
    /\ UNCHANGED <<tmnum, tmden, tmsr, tpc>>
    /\ UNCHANGED notTup

TupNext ==
    \/ tupMeasure
    \/ tupStart
    \/ tupNote
    \/ tupChordNote

\* the real notes of the measure, the tuplet-starts and the other notes
Reals == { j \in 1 .. Len(telems) : telems[j].kind = "real" }
Tups == { j \in 1 .. Len(telems) : telems[j].name = "tup" }
Others == { j \in 1 .. Len(telems) : telems[j].kind \in {"chord", "grace"} }

\* the first n real notes after the tuplet-start at i
group(i) ==
    { j \in Reals : j > i /\ Cardinality({ k \in Reals : i < k /\ k <= j }) <= telems[i].nts }

SetMax(S) == CHOOSE x \in S : \A y \in S : y <= x
SetMin(S) == CHOOSE x \in S : \A y \in S : x <= y

\* the tuplet-starts of at least two notes whose notes are all in the measure,
\* with no other tuplet-start among them
CompleteTups ==
    { i \in Tups : /\ telems[i].nts >= 2
                   /\ Cardinality(group(i)) = telems[i].nts
                   /\ \A k \in Tups : ~(i < k /\ k < SetMax(group(i))) }

\* the real note a chord or grace note follows, 0 if it follows none
realBefore(j) ==
    IF { k \in Reals : k < j } = {} THEN 0 ELSE SetMax({ k \in Reals : k < j })

\* C17 as claimed: after a tuplet-start for n notes the next n real notes of the
\* measure, and the chord notes attached to them, carry the time modification
\* and the real notes have their duration multiplied by normal/actual; the
\* first of them and no other note carries 'start', the n-th and no other
\* carries 'stop', no chord or grace note carries either, and the next real
\* note after the n-th is emitted unmodified.
C17_TupletSpansNNotes ==
    \A i \in CompleteTups :
        LET g == group(i)
            first == SetMin(g)
            lst == SetMax(g)
            tm == <<telems[i].n, telems[i].into>>
        IN /\ \A j \in g :
                 /\ telems[j].tmod = tm
                 /\ telems[j].dvs * telems[i].n = telems[j].dvs0 * telems[i].into
                 /\ (telems[j].tupnotation = "start") <=> (j = first)
                 /\ (telems[j].tupnotation = "stop") <=> (j = lst)
           /\ \A j \in Others :
                 (i < j /\ j < lst) => telems[j].tupnotation = ""
           /\ \A j \in Others :
                 (telems[j].kind = "chord" /\ realBefore(j) \in g) => telems[j].tmod = tm
           /\ \A j \in Reals :
                 (j > lst /\ Cardinality({ k \in Reals : lst < k /\ k <= j }) = 1
                    /\ \A k \in Tups : ~(lst < k /\ k < j))
                    => (telems[j].tmod = <<>> /\ telems[j].dvs = telems[j].dvs0)

\* C28 as claimed: every note or rest that is neither a grace note nor a chord
\* note after the first has a duration element holding a positive integer, for
\* every written duration and tuplet ratio, and a grace note has none; the
\* element is absent when dvs is 0 (if dvs: addElemT (nt, 'duration', ...)).
C28_RealNotesHaveDuration ==
    \A j \in 1 .. Len(telems) :
        /\ j \in Reals => telems[j].dvs > 0
        /\ (telems[j].name = "note" /\ telems[j].kind = "grace") => telems[j].dvs = 0

\* C18 as claimed: when a tuplet-start has been processed the counter and the
\* time modification are its own and the list of collected durations is
\* empty, whatever preceded it in the voice.
C18_TupletStartResets ==
    tevent = "tup" =>
        LET x == telems[Len(telems)] IN
        /\ tupCnt = x.nts
        /\ tmnum = x.n /\ tmden = x.into
        /\ tupBuf = <<>>

(***************************************************************************)
(* Chords with a tie and slur ends on the chord and on its members.  The   *)
(* measure is one chord, alone or after a note; doMaat then runs           *)
(* convertChord over it.                                                   *)
(***************************************************************************)
\* the members of a chord
MaxMembers == 3

\* chord_note = note | rest, or a grace note (a note flagged by doGrace)
SuffixMembers ==
    { [pObj("note", note_length(1, 0, DefaultDen), "", <<>>, t, c) EXCEPT !.pitch = p] :
        p \in {"C", "E"}, t \in BOOLEAN, c \in 0 .. 1 }
    \cup { [pObj("note", note_length(1, 0, DefaultDen), "", <<>>, FALSE, 0)
               EXCEPT !.pitch = "g", !.grace = TRUE] }
    \cup { pObj("rest", note_length(1, 0, DefaultDen), "", <<>>, FALSE, 0) }

\* note.setParseAction: a note before the chord
leadNote ==
    /\ mpc = "parsing"
    /\ maat = <<>>
    /\ maat' = <<[pObj("note", note_length(1, 0, DefaultDen), "", <<>>, FALSE, 0)
                     EXCEPT !.pitch = "C"]>>
    /\ UNCHANGED <<maatIn, maatBrk, brkCalls, mpc>>
    /\ UNCHANGED notMaat

\* chord.setParseAction: '[' members ']' note_length tie slur_ends
chordSuffixActn ==
    /\ mpc = "parsing"
    /\ \A k \in 1 .. Len(maat) : maat[k].name # "chord"
    /\ \E n \in 1 .. MaxMembers :
       \E ms \in [1 .. n -> SuffixMembers], tie \in BOOLEAN, slurs \in {0, 2},
          d \in {note_length(1, 0, DefaultDen), note_length(3, 0, DefaultDen)} :
          maat' = Append(maat, pObj("chord", d, "", ms, tie, slurs))
    /\ UNCHANGED <<maatIn, maatBrk, brkCalls, mpc>>
    /\ UNCHANGED notMaat

ChordNext ==
    \/ leadNote
    \/ chordSuffixActn
    \/ doMaat

\* C19: convertChord sets the tie of the chord on every member note, the slur
\* ends of the chord on the first member note only (the others keep their
\* own), flags every member note but the first as a chord note, and records
\* the pitches of all member notes, in their order, in the first and in no
\* other.
C19_ChordSuffixPropagates ==
    mpc = "done" =>
        \A i \in FlattenedChords :
            LET x == maatBrk[i]
                ms == SelectSeq(x.objs, notRest)
                at == flatOffset(maatBrk, i - 1)
            IN \A k \in 1 .. Len(ms) :
                  LET r == maat[at + k] IN
                  /\ r.pitch = ms[k].pitch
                  /\ r.tie = (x.tie \/ ms[k].tie)
                  /\ (k = 1 /\ x.slurs > 0) => r.slurs = x.slurs
                  /\ (k > 1 \/ x.slurs = 0) => r.slurs = ms[k].slurs
                  /\ r.chord = (k > 1)
                  /\ r.pitches = IF k = 1 THEN [n \in 1 .. Len(ms) |-> ms[n].pitch]
                                 ELSE <<>>

\* C19 witness: a chord with a tie and slur ends on its suffix, after a note,
\* with a rest and two notes of different pitch, the second with a slur end
\* of its own and the first with none, has been flattened.
C19_Witness ==
    /\ mpc = "done"
    /\ Len(maatBrk) = 2
    /\ maatBrk[2].name = "chord"
    /\ maatBrk[2].tie /\ maatBrk[2].slurs = 2
    /\ Len(maatBrk[2].objs) = 3
    /\ maatBrk[2].objs[1].name = "rest"
    /\ maatBrk[2].objs[2].pitch = "C" /\ maatBrk[2].objs[2].slurs = 0
    /\ ~maatBrk[2].objs[2].tie
    /\ maatBrk[2].objs[3].pitch = "E" /\ maatBrk[2].objs[3].slurs = 1
    /\ Len(maat) = 3
    /\ maat[3].chord /\ maat[3].tie /\ maat[3].slurs = 1
    /\ maat[2].slurs = 2 /\ maat[2].pitches = <<"C", "E">>

(***************************************************************************)
(* Barlines and volta endings: MusicXml.mkBarline, called by mkMeasure for *)
(* the left and the right bar of a measure, and mkPart, which adds the     *)
(* measure to the part or merges it into the part's last measure.  A       *)
(* barline is a record of its location and its ending elements in order.   *)
(***************************************************************************)
\* the measures of the voice, overlays included
MaxVoltaMsrs == 3

\* the left bars of a measure: none, '|:', a volta, '|:' with a volta
Lbars == {<<>>, <<"|:">>, <<"1">>, <<"2">>, <<"|:", "1">>}

\* the right bars of a measure
Rbars == {"|", "||", ":|", "&"}

ending(type, number) == [type |-> type, number |-> number]

barline(location, ends) == [loc |-> location, ends |-> ends]

\* mkBarline: the barline added to maat, the barline added to s.prevmsre (if
\* any) and the new s.curVolta
mkBarline(cv, location, end) ==
    LET stop == <<ending("stop", cv)>>
        start == IF end # "" THEN <<ending("start", end)>> ELSE <<>>
    IN [maat |-> <<barline(location, (IF cv # "" /\ location # "left" THEN stop ELSE <<>>)
                                 \o start)>>,
        prev |-> IF cv # "" /\ location = "left" THEN <<barline("right", stop)>> ELSE <<>>,
        curVolta |-> end]

\* mkMeasure, x.name == 'lbar'
lbar(cv, t) ==
    IF t = <<>> THEN [maat |-> <<>>, prev |-> <<>>, curVolta |-> cv]
    ELSE IF t[1] = "|:"
         THEN mkBarline(cv, "left", IF Len(t) = 2 THEN t[2] ELSE "")
         ELSE mkBarline(cv, "left", t[1])

\* mkMeasure, x.name == 'rbar'
rbar(cv, bar) ==
    IF bar \in {"||", ":|"} THEN mkBarline(cv, "right", "")
    ELSE [maat |-> <<>>, prev |-> <<>>, curVolta |-> cv]

\* MusicXml.reset
VoltaInit ==
    /\ curVolta = ""
    /\ vpart = <<>>
    /\ prevmsre = "none"
    /\ loose = <<>>
    /\ voverlay = FALSE
    /\ vmsr = 0
    /\ vvce = 0
    /\ vpc = "idle"

\* mkPart up to its first measure; the measure made last is not in this part
voltaPart ==
    /\ vpc = "idle"
    /\ vvce < MaxVoices
    /\ vvce' = vvce + 1
    /\ curVolta' = ""
    /\ vpart' = <<>>
    /\ voverlay' = FALSE
    /\ vmsr' = 0
    /\ prevmsre' = IF prevmsre = "none" THEN "none" ELSE "loose"
    /\ loose' = IF prevmsre = "last" THEN vpart[Len(vpart)] ELSE loose
    /\ vpc' = "voice"
    /\ UNCHANGED notVolta

\* one measure with notes: mkMeasure with its left and right bar, then mkPart
\* adds it to the part, or mergePartMeasure merges it into the last measure
voltaMeasure ==
    /\ vpc = "voice"
    /\ vmsr < MaxVoltaMsrs
    /\ vmsr' = vmsr + 1
    /\ \E lb \in Lbars, rb \in Rbars :
          LET l == lbar(curVolta, lb)
              r == rbar(l.curVolta, rb)
              maat1 == l.maat \o r.maat
              \* a stop for the previous measure is added to s.prevmsre
              part1 == IF prevmsre = "last" /\ l.prev # <<>>
                       THEN [vpart EXCEPT ![Len(vpart)] = @ \o l.prev]
                       ELSE vpart
          IN /\ ~(prevmsre = "none" /\ l.prev # <<>>)
             /\ curVolta' = r.curVolta
             /\ voverlay' = (rb = "&")
             /\ IF voverlay
                THEN /\ vpart' = [part1 EXCEPT ![Len(part1)] = @ \o maat1]
                     /\ prevmsre' = "loose"
                     /\ loose' = maat1
                ELSE /\ vpart' = Append(part1, maat1)
                     /\ prevmsre' = "last"
                     /\ loose' = IF prevmsre = "loose" THEN loose \o l.prev ELSE loose
    /\ UNCHANGED <<vvce, vpc>>
    /\ UNCHANGED notVolta

\* mkPart returns
voltaEnd ==
    /\ vpc = "voice"
    /\ vpart # <<>>
    /\ vpc' = "idle"
    /\ UNCHANGED <<curVolta, vpart, prevmsre, loose, voverlay, vmsr, vvce>>
    /\ UNCHANGED notVolta

VoltaNext ==
    \/ voltaPart
    \/ voltaMeasure
    \/ voltaEnd

\* the ending elements of a measure with the location of their barline
RECURSIVE measureEnds(_)
measureEnds(m) ==
    IF m = <<>> THEN <<>>
    ELSE [k \in 1 .. Len(Head(m).ends) |->
            [type |-> Head(m).ends[k].type, number |-> Head(m).ends[k].number,
             loc |-> Head(m).loc]] \o measureEnds(Tail(m))

\* the ending elements of the part in document order
RECURSIVE partEnds(_)
partEnds(p) == IF p = <<>> THEN <<>> ELSE measureEnds(Head(p)) \o partEnds(Tail(p))

\* C20 as claimed: in the part of a voice the ending elements alternate, a
\* start first, and every stop stands on a right barline and carries the
\* number of the start before it; a volta is open exactly when the last
\* ending is a start, and then it is that one.
C20_EndingsAlternate ==
    LET e == partEnds(vpart) IN
    /\ \A k \in 1 .. Len(e) :
          IF k % 2 = 1 THEN e[k].type = "start"
          ELSE /\ e[k].type = "stop"
               /\ e[k].number = e[k - 1].number
               /\ e[k].loc = "right"
    /\ vpc = "voice" =>
          curVolta = (IF Len(e) % 2 = 1 THEN e[Len(e)].number ELSE "")

(***************************************************************************)
(* The score/staves directive: mkStaves, mkGrand, mkGroups, parseStaveDef  *)
(* and the two mergeParts calls of parse.  A node of the directive's parse *)
(* tree is a pObj [name, t, objs]: a 'vid' has its voice id in t, a        *)
(* 'voicegr' its members in objs, a 'grand' the opening '{' or '{*' in t   *)
(* and its members in objs (in the code the opening is objs [0] as well).  *)
(* No voice id occurs twice in a directive.  A part is the sequence of the *)
(* voice ids merged into it.                                               *)
(***************************************************************************)
\* the largest number of parts at the top of a directive
MaxScoreParts == 3

VoiceIds == <<"1", "2", "3">>

VoiceNames == {"", "A", "B"}

\* the abbreviation the voices of the model have with each name
subnameOf(nm) == IF nm = "A" THEN "a" ELSE ""

\* vdefs [vid] = pname, psubnm, vcedef.t[2]: the definition of a voice (its
\* clef and other attributes) is told apart by the id of the voice
voiceDef(v, nm) == [nm |-> nm, snm |-> subnameOf(nm), vdef |-> v]

vid(v) == [name |-> "vid", t |-> <<v>>, objs |-> <<>>]

voicegr(ms) == [name |-> "voicegr", t |-> <<>>, objs |-> ms]

grand(open, ms) == [name |-> "grand", t |-> <<open>>, objs |-> ms]

\* the voice ids of a node, in order
RECURSIVE idsOf(_)
idsOf(x) ==
    IF x.name = "vid" THEN x.t
    ELSE IF x.objs = <<>> THEN <<>>
    ELSE idsOf(Head(x.objs)) \o idsOf([x EXCEPT !.objs = Tail(x.objs)])

\* simple_part = voiceId | voice_gr
SimpleParts ==
    { vid(v) : v \in Range(VoiceIds) }
    \cup { voicegr(<<vid(v), vid(w)>>) : v, w \in Range(VoiceIds) }

\* grand_staff = oneOf ('{* {') + OneOrMore (simple_part) + '}'
GrandStaffs ==
    { grand(o, <<m>>) : o \in {"{", "{*"}, m \in SimpleParts }
    \cup { grand(o, <<m, n>>) : o \in {"{", "{*"}, m \in SimpleParts, n \in SimpleParts }

distinctIds(q) == \A i, j \in 1 .. Len(q) : q[i] = q[j] => i = j

\* part = simple_part | grand_staff
ScoreParts == { p \in SimpleParts \cup GrandStaffs : distinctIds(idsOf(p)) }

\* a renaming that hands over the whole definition of the named voice
renameWholeDef(vids, vd) ==
    LET defd == SelectSeq(vids, LAMBDA v : v \in DOMAIN vd)
        named == SelectSeq(defd, LAMBDA v : vd[v].nm # "")
    IN IF defd = <<>> \/ named = <<>> THEN vd
       ELSE [vd EXCEPT ![defd[1]] = vd[named[1]]]

\* setFristVoiceNameFromGroup: the first non empty name of the defined voices
\* becomes the name of the first defined voice
setFristVoiceNameFromGroup(vids, vd) ==
    LET defd == SelectSeq(vids, LAMBDA v : v \in DOMAIN vd)
        named == SelectSeq(defd, LAMBDA v : vd[v].nm # "")
    IN IF defd = <<>> \/ named = <<>> THEN vd
       ELSE [vd EXCEPT ![defd[1]] = [nm |-> vd[named[1]].nm, snm |-> vd[named[1]].snm,
                                     vdef |-> vd[defd[1]].vdef]]

\* mkStaves on the nodes objs: xs with every voice id wrapped into a list
\* (the f of parseStaveDef), the nodes as the call leaves them, and vdefs
RECURSIVE mkStaves(_, _)
mkStaves(objs, vd) ==
    IF objs = <<>> THEN [xs |-> <<>>, objs |-> <<>>, vdefs |-> vd]
    ELSE LET x == Head(objs)
             us == mkStaves(x.objs, vd)
             first ==
                 IF x.name = "vid"
                 THEN [xs |-> <<x.t>>, obj |-> x, vdefs |-> vd]
                 ELSE IF x.name = "voicegr"
                 THEN [xs |-> <<idsOf(x)>>, obj |-> x.objs[1],
                       vdefs |-> setFristVoiceNameFromGroup(idsOf(x), us.vdefs)]
                 ELSE [xs |-> us.xs, obj |-> [x EXCEPT !.objs = us.objs],
                       vdefs |-> us.vdefs]
             rest == mkStaves(Tail(objs), first.vdefs)
         IN [xs |-> first.xs \o rest.xs, objs |-> <<first.obj>> \o rest.objs,
             vdefs |-> rest.vdefs]

\* the number of defined voices of vids, named or not
definedOf(vids, vd) ==
    Cardinality({ i \in 1 .. Len(vids) : vids[i] \in DOMAIN vd })

\* the number of non empty names of the defined voices of vids
namedOf(vids, vd) ==
    Cardinality({ i \in 1 .. Len(vids) : vids[i] \in DOMAIN vd /\ vd[vids[i]].nm # "" })

\* mkGrand on the nodes objs, which mkStaves has left without voice groups:
\* xs, the nodes as the call leaves them, vdefs and the decision on each grand
RECURSIVE mkGrand(_, _)
mkGrand(objs, vd) ==
    IF objs = <<>> THEN [xs |-> <<>>, objs |-> <<>>, vdefs |-> vd, accepts |-> <<>>]
    ELSE LET x == Head(objs)
             us == mkGrand(x.objs, vd)
             vids == [i \in 1 .. Len(x.objs) |-> x.objs[i].t[1]]
             accept == namedOf(vids, us.vdefs) = 1
             first ==
                 IF x.name = "vid"
                 THEN [xs |-> <<x.t>>, obj |-> x, vdefs |-> vd, accepts |-> <<>>]
                 ELSE IF x.name = "grand"
                 THEN IF accept \/ x.t[1] = "{*"
                      THEN [xs |-> <<flat(us.xs)>>, obj |-> x.objs[1],
                            vdefs |-> setFristVoiceNameFromGroup(vids, us.vdefs),
                            accepts |-> us.accepts \o <<TRUE>>]
                      ELSE [xs |-> us.xs, obj |-> [x EXCEPT !.objs = us.objs],
                            vdefs |-> us.vdefs, accepts |-> us.accepts \o <<FALSE>>]
                 ELSE [xs |-> us.xs, obj |-> [x EXCEPT !.objs = us.objs],
                       vdefs |-> us.vdefs, accepts |-> us.accepts]
             rest == mkGrand(Tail(objs), first.vdefs)
         IN [xs |-> first.xs \o rest.xs, objs |-> <<first.obj>> \o rest.objs,
             vdefs |-> rest.vdefs, accepts |-> first.accepts \o rest.accepts]

\* mkGroups on the nodes objs: a grand that is still in the tree was rejected
RECURSIVE mkGroups(_)
mkGroups(objs) ==
    IF objs = <<>> THEN <<>>
    ELSE LET x == Head(objs)
         IN (IF x.name = "vid" THEN x.t
             ELSE x.t \o mkGroups(x.objs) \o <<"}">>)
            \o mkGroups(Tail(objs))

\* d.get (v, [v]): the voices of the staff with the first voice v
staffVoices(v, stvs) ==
    IF \E i \in 1 .. Len(stvs) : Len(stvs[i]) > 1 /\ stvs[i][1] = v
    THEN stvs[CHOOSE i \in 1 .. Len(stvs) : Len(stvs[i]) > 1 /\ stvs[i][1] = v]
    ELSE <<v>>

\* s.gNstaves.get (vx, 0) after the loop over s.grands
nStaves(vx, grds, stvs) ==
    LET of == { i \in 1 .. Len(grds) :
                  /\ Len(grds[i]) > 1
                  /\ \E k \in 1 .. Len(grds[i]) : vx \in Range(staffVoices(grds[i][k], stvs)) }
    IN IF of = {} THEN 0 ELSE Len(grds[CHOOSE i \in of : TRUE])

\* the place of vid in vids, 0 if it is not there
indexOf(v, vids) ==
    IF v \in Range(vids) THEN CHOOSE i \in 1 .. Len(vids) : vids[i] = v ELSE 0

\* mergeParts (parts, vids, staves, rOpt, is_grand): the merged part is the
\* parts of the staff one after the other
RECURSIVE mergeVoices(_, _, _)
mergeVoices(pts, vids, stvs) ==
    IF stvs = <<>> THEN [parts |-> <<>>, vids |-> <<>>]
    ELSE LET pixs == SelectSeq([i \in 1 .. Len(stvs[1]) |-> indexOf(stvs[1][i], vids)],
                               LAMBDA pix : pix # 0)
             rest == mergeVoices(pts, vids, Tail(stvs))
         IN IF pixs = <<>> THEN rest
            ELSE [parts |-> <<flat([i \in 1 .. Len(pixs) |-> pts[pixs[i]]])>> \o rest.parts,
                  vids |-> <<vids[pixs[1]]>> \o rest.vids]

\* mergeParts: if not staves: return parts, vids
mergePartsBy(pts, vids, stvs) ==
    IF stvs = <<>> THEN [parts |-> pts, vids |-> vids] ELSE mergeVoices(pts, vids, stvs)

StaveInit ==
    /\ vdefs = <<>>
    /\ names0 = <<>>
    /\ scoreDef = <<>>
    /\ staves = <<>>
    /\ grands = <<>>
    /\ groups = <<>>
    /\ accepts = <<>>
    /\ gNstaves = [v \in Range(VoiceIds) |-> 0]
    /\ xmlParts = <<>>
    /\ gpc = "tune"

\* voiceNamesAndMaps: the next voice of the tune gets its name
voiceNamesAndMaps ==
    /\ gpc = "tune"
    /\ Len(vdefs) < Len(VoiceIds)
    /\ \E nm \in VoiceNames :
          /\ vdefs' = Append(vdefs, voiceDef(VoiceIds[Len(vdefs) + 1], nm))
          /\ names0' = Append(names0, voiceDef(VoiceIds[Len(vdefs) + 1], nm))
    /\ UNCHANGED <<scoreDef, staves, grands, groups, accepts, gNstaves, xmlParts, gpc>>
    /\ UNCHANGED notStave

\* the text of the directive has one more part
scorePart ==
    /\ gpc = "tune"
    /\ Len(scoreDef) < MaxScoreParts
    /\ \E p \in ScoreParts :
          /\ distinctIds(flat([i \in 1 .. Len(scoreDef) |-> idsOf(scoreDef[i])]) \o idsOf(p))
          /\ scoreDef' = Append(scoreDef, p)
    /\ UNCHANGED <<vdefs, names0, staves, grands, groups, accepts, gNstaves, xmlParts, gpc>>
    /\ UNCHANGED notStave

\* vdefs as the dictionary it is: voice id -> (name, subname, definition)
asDict(names) == [v \in { VoiceIds[i] : i \in 1 .. Len(names) } |-> names[indexOf(v, VoiceIds)]]

\* the names of the dictionary in the order of the voices
asNames(vd) == [i \in 1 .. Cardinality(DOMAIN vd) |-> vd[VoiceIds[i]]]

\* parseStaveDef (vdefs)
staveDef ==
    /\ gpc = "tune"
    /\ vdefs # <<>>
    /\ LET st == mkStaves(scoreDef, asDict(vdefs))
           gr == mkGrand(st.objs, st.vdefs)
       IN IF scoreDef = <<>>
          THEN UNCHANGED <<vdefs, staves, grands, groups, accepts, gNstaves>>
          ELSE /\ staves' = st.xs
               /\ grands' = gr.xs
               /\ groups' = mkGroups(gr.objs)
               /\ accepts' = gr.accepts
               /\ vdefs' = asNames(gr.vdefs)
               /\ gNstaves' = [v \in Range(VoiceIds) |-> nStaves(v, gr.xs, st.xs)]
    /\ gpc' = "staved"
    /\ UNCHANGED <<names0, scoreDef, xmlParts>>
    /\ UNCHANGED notStave

\* parse: one part for each voice, then mergeParts by s.staves and by s.grands
mergeStaves ==
    /\ gpc = "staved"
    /\ LET vids == SubSeq(VoiceIds, 1, Len(vdefs))
           parts0 == [i \in 1 .. Len(vids) |-> <<vids[i]>>]
           byStaves == mergePartsBy(parts0, vids, staves)
           byGrands == mergePartsBy(byStaves.parts, byStaves.vids, grands)
       IN xmlParts' = byGrands.parts
    /\ gpc' = "merged"
    /\ UNCHANGED <<vdefs, names0, scoreDef, staves, grands, groups, accepts, gNstaves>>
    /\ UNCHANGED notStave

\* the next tune
nextScore ==
    /\ gpc = "merged"
    /\ vdefs' = <<>>
    /\ names0' = <<>>
    /\ scoreDef' = <<>>
    /\ staves' = <<>>
    /\ grands' = <<>>
    /\ groups' = <<>>
    /\ accepts' = <<>>
    /\ gNstaves' = [v \in Range(VoiceIds) |-> 0]
    /\ xmlParts' = <<>>
    /\ gpc' = "tune"
    /\ UNCHANGED notStave

StaveNext ==
    \/ voiceNamesAndMaps
    \/ scorePart
    \/ staveDef
    \/ mergeStaves
    \/ nextScore

\* the grand staff nodes of the directive, in order
theGrands == SelectSeq(scoreDef, LAMBDA p : p.name = "grand")

\* the first voice id of each member of a grand
leaders(g) == [i \in 1 .. Len(g.objs) |-> idsOf(g.objs[i])[1]]

allDefined(g) == \A v \in Range(idsOf(g)) : v \in DOMAIN asDict(names0)

\* the voices of a grand that the tune defines with a non empty name
namedVoices(g) ==
    { v \in Range(idsOf(g)) \cap DOMAIN asDict(names0) : asDict(names0)[v].nm # "" }

\* the members of a grand whose first voice is defined and that hold a
\* defined voice with a non empty name
namedStaves(g) ==
    { i \in 1 .. Len(g.objs) :
        /\ idsOf(g.objs[i])[1] \in DOMAIN asDict(names0)
        /\ \E v \in Range(idsOf(g.objs[i])) \cap DOMAIN asDict(names0) :
              asDict(names0)[v].nm # "" }

\* sub is a run of consecutive elements of q
isRun(sub, q) ==
    \E k \in 0 .. Len(q) - Len(sub) : SubSeq(q, k + 1, k + Len(sub)) = sub

\* what being accepted and being rejected mean for the grand g
mergedAsGrand(g) ==
    /\ leaders(g) \in Range(grands)
    /\ ~isRun(<<"{">> \o leaders(g) \o <<"}">>, groups)
    /\ allDefined(g) =>
          /\ idsOf(g) \in Range(xmlParts)
          /\ Len(g.objs) > 1 => \A v \in Range(idsOf(g)) : gNstaves[v] = Len(g.objs)

leftAsBrace(g) ==
    /\ \A i \in 1 .. Len(g.objs) : <<leaders(g)[i]>> \in Range(grands)
    /\ isRun(<<"{">> \o leaders(g) \o <<"}">>, groups)
    /\ \A v \in Range(idsOf(g)) : gNstaves[v] = 0
    /\ allDefined(g) => \A i \in 1 .. Len(g.objs) : idsOf(g.objs[i]) \in Range(xmlParts)

\* C22: a grand staff grouping is accepted, its voices merged into one part
\* of several staves, if and only if exactly one of its defined voices has a
\* non empty name or it has the '{*' form; a rejected grouping leaves its
\* staves as separate parts inside a brace group.
C22_AcceptedIffOneNamedVoice ==
    gpc = "merged" =>
        \A k \in 1 .. Len(theGrands) :
            LET g == theGrands[k]
            IN /\ accepts[k] <=> (g.t[1] = "{*" \/ Cardinality(namedVoices(g)) = 1)
               /\ accepts[k] => mergedAsGrand(g)
               /\ ~accepts[k] => leftAsBrace(g)

\* C22: a grand staff grouping is accepted if and only if it has the '{*'
\* form or exactly one of its staves has a name, a staff having a name when
\* its first voice is defined and one of its defined voices has a non empty
\* name; an accepted grouping is one entry of s.grands and one part, a
\* rejected one leaves its staves as separate parts inside a brace group.
C22_AcceptedIffOneNamedStaff ==
    gpc = "merged" =>
        \A k \in 1 .. Len(theGrands) :
            LET g == theGrands[k]
            IN /\ accepts[k] <=> (g.t[1] = "{*" \/ Cardinality(namedStaves(g)) = 1)
               /\ accepts[k] => mergedAsGrand(g)
               /\ ~accepts[k] => leftAsBrace(g)

\* C22 witness: a grouping of two staves accepted for its one named staff,
\* which holds two named voices, and merged into one part of three voices
C22_Witness ==
    /\ gpc = "merged"
    /\ \E k \in 1 .. Len(theGrands) :
          /\ accepts[k]
          /\ theGrands[k].t[1] = "{"
          /\ Len(theGrands[k].objs) = 2
          /\ Cardinality(namedVoices(theGrands[k])) = 2
          /\ allDefined(theGrands[k])
          /\ idsOf(theGrands[k]) \in Range(xmlParts)

(***************************************************************************)
(* mergePartList on parts with lyrics and attributes: mkPart for voices    *)
(* without overlays, then mergeParts for a stave or for a grand staff.     *)
(***************************************************************************)
\* the measures of the voices: a note, a note with one verse, a note with
\* two verses, a clef and key change before a note, a key change before a note
GrandShapes ==
    { <<xNote(1, FALSE, FALSE, FALSE, 0)>>,
      <<xLyricNote(1, {1})>>,
      <<xLyricNote(1, {1, 2})>>,
      <<xAttributes({"clef", "key"}), xNote(1, FALSE, FALSE, FALSE, 0)>>,
      <<xAttributes({"key"}), xNote(1, FALSE, FALSE, FALSE, 0)>> }

\* mkPart: the next measure of a voice without overlays
grandMeasure ==
    /\ partpc \in {"idle", "part"}
    /\ np = 0
    /\ nmsre < MaxMsrs
    /\ \E ms \in GrandShapes :
          part' = (IF partpc = "idle" THEN <<>> ELSE part)
                     \o <<setSrc(ms, <<Len(parts) + 1, 0>>)>>
    /\ mnum' = IF partpc = "idle"
               THEN [mnum EXCEPT !.part = <<1>>, !.made = 1]
               ELSE [mnum EXCEPT !.part = Append(@, mnum.made + 1), !.made = @ + 1]
    /\ nmsre' = nmsre + 1
    /\ partpc' = "part"
    /\ UNCHANGED <<parts, overlay, ovnum, p1, np, phist, isGrand>>
    /\ UNCHANGED notPart

GrandNext ==
    \/ grandMeasure
    \/ mkPartEnd
    \/ mergeFirst
    \/ mergePartListNext

\* the children of measure m made for part k (the backups are mergeMeasure's)
ofPart(m, k) == SelectSeq(m, LAMBDA e : e.tag # "backup" /\ e.src[1] = k)

\* the notes of measure m made for part k
notesOfPart(m, k) == SelectSeq(m, LAMBDA e : e.tag = "note" /\ e.src[1] = k)

\* the lyric numbers of the notes of a measure, note by note
lyricsOf(m) == [i \in 1 .. Len(m) |-> m[i].lyric]

\* C23: when a part is merged into the first, every lyric number of the part
\* is raised by the highest lyric number the first part held, the same in
\* every measure, and so differs from every lyric number of the other parts.
C23_VerseOffsetUniform ==
    (partpc = "merging" /\ phist.kind = "list") =>
        /\ \A im \in 1 .. Len(parts[np]) :
              lyricsOf(notesOfPart(p1[im], np))
                = lyricsOf(relyric(notesOfPart(parts[np][im], np), phist.lnum_max))
        /\ \A x, y \in notesOf(p1) :
              x.src[1] # y.src[1] => x.lyric \cap y.lyric = {}

attributesOf(m) == SelectSeq(m, LAMBDA e : e.tag = "attributes")

\* the attributes elements of a measure cut down to their clef children,
\* those without a clef child left out
clefsOnly(m) ==
    SelectSeq([i \in 1 .. Len(attributesOf(m)) |->
                  [attributesOf(m)[i] EXCEPT !.kids = @ \cap {"clef"}]],
              LAMBDA e : "clef" \in e.kids)

\* C24: merging leaves every measure of the first part as it was, with the
\* merged children after it; in a grand staff merge the attributes elements
\* of every other part are spliced in with their clef children only (none
\* when there is no clef child), in a stave merge none is spliced in.
C24_SubordinateAttributes ==
    (partpc = "merging" /\ phist.kind = "list") =>
        /\ \A im \in 1 .. Len(phist.before) :
              SubSeq(p1[im], 1, Len(phist.before[im])) = phist.before[im]
        /\ \A im \in 1 .. Len(parts[1]) :
              attributesOf(ofPart(p1[im], 1)) = attributesOf(parts[1][im])
        /\ \A k \in 2 .. np : \A im \in 1 .. Len(parts[k]) :
              attributesOf(ofPart(p1[im], k))
                = IF isGrand THEN clefsOnly(parts[k][im]) ELSE <<>>

\* C24 witness: a grand staff merge of a part with a clef and key change and
\* a lone key change into a first part that has a key change of its own
C24_Witness ==
    /\ partpc = "merging" /\ phist.kind = "list" /\ isGrand
    /\ \E im \in 1 .. Len(parts[1]) :
          \E e \in Range(parts[1][im]) : e.tag = "attributes" /\ "key" \in e.kids
    /\ \E im, jm \in 1 .. Len(parts[np]) :
          /\ \E e \in Range(parts[np][im]) : e.kids = {"clef", "key"}
          /\ \E e \in Range(parts[np][jm]) : e.kids = {"key"}
          /\ \E e \in Range(p1[im]) : e.src[1] = np /\ e.kids = {"clef"}
          /\ attributesOf(ofPart(p1[jm], np)) = <<>>

(***************************************************************************)
(* The percussion map: readPercMap, the percussion clef of doClef and      *)
(* MusicXml.mkPitch for a voice with s.percVoice set.  The octave= of the  *)
(* clef is absent, so s.gtrans is 0 and octq is the written octave.  A     *)
(* display octave is kept in sevenths: stepTrans divides by seven.         *)
(***************************************************************************)
\* the notes of a percussion voice
MaxPercNotes == 3

\* the parts of the tune
PercPids == {"P1", "P2"}

\* the written notes: accidental, note, octave
PercNotes == { <<acc, note, oct>> : acc \in {"", "^"}, note \in {"C", "c"},
                                    oct \in {0} }

\* no entry in s.percMap
NoEntry == [step |-> "", soct |-> 0, midi |-> 0, notehead |-> ""]

\* the entry of 'I:percmap <abc_note> E 40 x'
MappedEntry == [step |-> "E", soct |-> 0, midi |-> 40, notehead |-> "x"]

PercKeys == { <<p>> \o n : p \in PercPids \cup {""}, n \in PercNotes }

\* step.upper ()
upperStep(step) == IF step = "c" THEN "C" ELSE step

\* 'CDEFGAB'.index (step) and nm7.index (step)
stepIndex(step) ==
    CHOOSE i \in 0 .. 6 : <<"C", "D", "E", "F", "G", "A", "B">>[i + 1] = step

\* stepTrans (step, soct, clef), the octave in sevenths; n / 7 is a true
\* division in Python 3 and a floor division in Python 2
stepTrans(step, soct7, clef, py3) ==
    IF clef = "bass"
    THEN LET n == 14 + stepIndex(step) - 12
         IN [step |-> <<"C", "D", "E", "F", "G", "A", "B">>[(n % 7) + 1],
             soct7 |-> IF py3 THEN soct7 + n - 14
                       ELSE soct7 + 7 * (n \div 7) - 14]
    ELSE [step |-> step, soct7 |-> soct7]

\* s.percMap.get ((s.pid, acc+note, octq), s.percMap.get (('', acc+note, octq), 0))
percGet(pmap, p, n) ==
    IF pmap[<<p>> \o n] # NoEntry THEN pmap[<<p>> \o n] ELSE pmap[<<"">> \o n]

\* mkPitch for a percussion voice: the unpitched note, the entry stored and
\* whether the message is given
percPitch(pmap, found, p, clef, py3, n) ==
    LET acc    == n[1]
        note   == n[2]
        octq   == n[3]
        tup    == percGet(pmap, p, n)
        step   == IF tup # NoEntry THEN tup.step ELSE note
        soct   == IF tup # NoEntry THEN tup.soct ELSE octq
        octnum == (IF upperStep(step) = step THEN 4 ELSE 5) + soct
        midi   == octnum * 12
                  + <<0, 2, 4, 5, 7, 9, 11>>[stepIndex(upperStep(step)) + 1]
                  + (IF acc = "^" THEN 1 ELSE IF acc = "_" THEN 0 - 1 ELSE 0)
                  + 12
        head   == IF acc = "^" THEN "x" ELSE IF acc = "_" THEN "circle-x"
                  ELSE "normal"
        tr     == stepTrans(upperStep(step), 7 * octnum, clef, py3)
    IN IF tup = NoEntry
       THEN [note |-> [key |-> <<p>> \o n, synth |-> TRUE,
                       step |-> upperStep(step), octave7 |-> 7 * octnum,
                       midi |-> midi, notehead |-> head],
             pmap |-> [pmap EXCEPT ![<<p>> \o n] =
                          [step |-> note, soct |-> octq, midi |-> midi,
                           notehead |-> head]],
             info |-> found]
       ELSE [note |-> [key |-> <<p>> \o n, synth |-> FALSE,
                       step |-> tr.step, octave7 |-> tr.soct7,
                       midi |-> tup.midi, notehead |-> tup.notehead],
             pmap |-> pmap,
             info |-> FALSE]

PercInit ==
    /\ percMap = [k \in PercKeys |-> NoEntry]
    /\ pMapFound = FALSE
    /\ percVoice = FALSE
    /\ percClef = ""
    /\ percPid = ""
    /\ unpitched = <<>>
    /\ percInfos = <<>>
    /\ percpc = "header"

\* doField_I: readPercMap (x); s.pMapFound = 1, for a directive of the header
readPercMap ==
    /\ percpc = "header"
    /\ \E n \in PercNotes :
          percMap' = [percMap EXCEPT ![<<percPid>> \o n] = MappedEntry]
    /\ pMapFound' = TRUE
    /\ UNCHANGED <<percVoice, percClef, percPid, unpitched, percInfos, percpc>>
    /\ UNCHANGED notPerc

\* parse: the next voice: s.pid = s.vcepid [s.vid], and mkPart: s.percVoice = 0,
\* s.curClef = ''
percPart ==
    /\ percPid # "P2"
    /\ percPid' = IF percPid = "" THEN "P1" ELSE "P2"
    /\ percVoice' = FALSE
    /\ percClef' = ""
    /\ percpc' = "voice"
    /\ UNCHANGED <<percMap, pMapFound, unpitched, percInfos>>
    /\ UNCHANGED notPerc

\* doClef for a field with a clef and perc=on or map=perc, or the clef perc
percClefField ==
    /\ percpc = "voice"
    /\ \E clef \in {"perc", "bass", "treble"} : percClef' = clef
    /\ percVoice' = TRUE
    /\ UNCHANGED <<percMap, pMapFound, percPid, unpitched, percInfos, percpc>>
    /\ UNCHANGED notPerc

\* mkPitch for the next note of the percussion voice
mkPitchPerc ==
    /\ percpc = "voice"
    /\ percVoice
    /\ Len(unpitched) < MaxPercNotes
    /\ \E n \in PercNotes :
          LET r == percPitch(percMap, pMapFound, percPid, percClef, python3, n)
          IN /\ unpitched' = Append(unpitched, r.note)
             /\ percMap' = r.pmap
             /\ percInfos' = IF r.info THEN Append(percInfos, r.note.key)
                             ELSE percInfos
    /\ UNCHANGED <<pMapFound, percVoice, percClef, percPid, percpc>>
    /\ UNCHANGED notPerc

PercNext ==
    \/ readPercMap
    \/ percPart
    \/ percClefField
    \/ mkPitchPerc

\* C26: after the first use of a pitch without map entry, every later use of
\* that pitch in the part gives the display step, display octave, MIDI note
\* number and notehead of the first use, and the 'no I:percmap' message comes
\* at most once per part and pitch.
C26_LaterUsesAsFirst ==
    /\ \A i, j \in 1 .. Len(unpitched) :
          (i < j /\ unpitched[i].synth /\ unpitched[j].key = unpitched[i].key) =>
              /\ unpitched[j].step = unpitched[i].step
              /\ unpitched[j].octave7 = unpitched[i].octave7
              /\ unpitched[j].midi = unpitched[i].midi
              /\ unpitched[j].notehead = unpitched[i].notehead
    /\ \A i, j \in 1 .. Len(percInfos) : percInfos[i] = percInfos[j] => i = j

(***************************************************************************)
(* The slurs of one voice in the document.  mkNote is run on a voice of    *)
(* notes and grace notes with slur starts, slur ends and ties; slurDoc     *)
(* keeps a record per slur element pair:                                   *)
(*   number  the number attribute of the start and of the stop             *)
(*   from    the note that carries the start; for a converted tie this is  *)
(*           the note whose 'tied' element was renamed (e.tag = 'slur')    *)
(*   to      the note that carries the stop, 0 while the slur is open      *)
(*   tix     the place of the stop among the stops of the voice, 0 if open *)
(***************************************************************************)
\* the elements of the voice
MaxSlurElems == 5

\* the notes of the voice: notes with or without tie and slur end, and a
\* grace note with or without slur end
SlurNotes ==
    { nNote(p, t, c, FALSE, FALSE, {}) : p \in Pitches, t \in BOOLEAN, c \in 0 .. 1 }
    \cup { nNote("D", FALSE, c, TRUE, FALSE, {}) : c \in 0 .. 1 }

SlurInit ==
    /\ slurDoc = <<>>
    /\ tieAt = [p \in Pitches |-> 0]
    /\ notePos = 0

\* the open slurs of the document
openSlurs(sd) == { i \in 1 .. Len(sd) : sd[i].to = 0 }

\* slur = E.Element ('slur', number=slurnum, type='stop'), n times: each stop
\* goes with the open start made last
RECURSIVE stopSlurs(_, _, _)
stopSlurs(sd, p, n) ==
    IF n = 0 \/ openSlurs(sd) = {} THEN sd
    ELSE LET i == CHOOSE k \in openSlurs(sd) : \A j \in openSlurs(sd) : j <= k
             done == Cardinality({ k \in 1 .. Len(sd) : sd[k].to # 0 })
         IN stopSlurs([sd EXCEPT ![i].to = p, ![i].tix = done + 1], p, n - 1)

\* the slur elements doNotations makes or renames on the note at place p:
\* the start of a converted tie on the note of the tie, the stops, and the
\* starts of the pending slurs
logSlurs(sd, at, l, p, nbeg) ==
    LET d1 == IF l.conv = {} THEN sd
              ELSE Append(sd, [number |-> Len(l.pre) + 1,
                                from |-> at[(CHOOSE e \in l.conv : TRUE).pt],
                                to |-> 0, tix |-> 0])
        d2 == stopSlurs(d1, p, Len(l.stops))
    IN d2 \o [i \in 1 .. nbeg |->
                 [number |-> Len(l.after) + i, from |-> p, to |-> 0, tix |-> 0]]

\* mkPart for the voice
slurPart ==
    /\ epc = "idle"
    /\ vce = 0
    /\ vce' = 1
    /\ slurstack' = <<>>
    /\ overlayVnum' = 0
    /\ ntup' = -1 /\ trem' = 0
    /\ msr' = 1 /\ nelm' = 0
    /\ epc' = "voice"
    /\ UNCHANGED <<ties, slurbeg, tupnts, last>>
    /\ UNCHANGED slurVars
    /\ UNCHANGED notEmitSlur

\* staffDecos, d == '(': start a slur on the next note
slurBegDeco ==
    /\ epc = "voice"
    /\ nelm < MaxSlurElems
    /\ slurbeg + Len(slurstack) < MaxSlurs
    /\ slurbeg' = slurbeg + 1
    /\ nelm' = nelm + 1
    /\ UNCHANGED <<ties, slurstack, overlayVnum, ntup, trem, tupnts, vce, msr, epc, last>>
    /\ UNCHANGED slurVars
    /\ UNCHANGED notEmitSlur

\* mkMeasure, x.name == 'note': mkNote and doNotations on the next note
slurNote ==
    /\ epc = "voice"
    /\ nelm < MaxSlurElems
    /\ \E n \in SlurNotes :
          LET st == mkNote(emitState, n, overlayVnum, vce) IN
          /\ setEmit(st)
          /\ slurDoc' = logSlurs(slurDoc, tieAt, st.last, notePos + 1, slurbeg)
          /\ tieAt' = IF n.tie THEN [tieAt EXCEPT ![n.pt] = notePos + 1] ELSE tieAt
    /\ notePos' = notePos + 1
    /\ nelm' = nelm + 1
    /\ UNCHANGED <<overlayVnum, vce, msr, epc>>
    /\ UNCHANGED notEmitSlur

SlurNext ==
    \/ slurPart
    \/ slurBegDeco
    \/ slurNote

\* two slurs are open at the same time in the document
together(a, b) ==
    /\ a.from < (IF b.to = 0 THEN notePos + 1 ELSE b.to)
    /\ b.from < (IF a.to = 0 THEN notePos + 1 ELSE a.to)

\* C29 as claimed: the slur stack holds the numbers 1..k in increasing order,
\* k being the number of open slurs, slurs made from converted ties included;
\* two slurs of the voice that are open at the same time never share a number,
\* and a slur stop carries the number of the latest start that is still open.
C29_SlurNumbersUnique ==
    /\ slurstack = [i \in 1 .. Cardinality(openSlurs(slurDoc)) |-> i]
    /\ \A i, j \in 1 .. Len(slurDoc) :
          (i # j /\ together(slurDoc[i], slurDoc[j])) =>
              slurDoc[i].number # slurDoc[j].number
    /\ \A i, j \in 1 .. Len(slurDoc) :
          (slurDoc[i].to # 0 /\ slurDoc[j].from > slurDoc[i].from
             /\ slurDoc[j].from < slurDoc[i].to) =>
              (slurDoc[j].tix # 0 /\ slurDoc[j].tix < slurDoc[i].tix)

(***************************************************************************)
(* Beams: doBeams as mkNote calls it, and stopBeams at the end of          *)
(* mkMeasure.  A note of the measure is a record                           *)
(*   kind   "note", "rest", "grace" or "chord" (a chord note after the     *)
(*          first)                                                         *)
(*   den    the key of its type in s.typeMap: 16 a quarter, 32 an eighth   *)
(*   dvs    its duration in divisions                                      *)
(*   beam   the text of its beam element, "" if it has none                *)
(***************************************************************************)
\* the notes of one measure
MaxBeamNotes == 4

\* n.dur.t after L:1/8: an eighth, a quarter and a note written with length 5
BeamLengths == {<<1, 1>>, <<2, 1>>, <<5, 1>>}

\* the keys of s.typeMap
TypeDens == {1, 2, 4, 8, 16, 32, 64, 128, 256}

\* mkNote: num, den = simplify (num, den * 4), the dots, and the nearest
\* smaller legal duration
typeDen(num0, den0) ==
    LET t == simplify(num0, den0 * 4)
        d == IF t[1] = 3 THEN t[2] \div 2
             ELSE IF t[1] = 7 THEN t[2] \div 4 ELSE t[2]
    IN IF d \in TypeDens THEN d
       ELSE CHOOSE x \in TypeDens :
               x > d /\ \A y \in TypeDens : y > d => x <= y

\* the note mkNote hands to doBeams
beamNote(kind, dur) ==
    LET d == noteDur(IF kind = "rest" THEN "z" ELSE "note", dur, FALSE,
                     <<1, 8>>, <<4, 4>>, TRUE)
    IN [kind |-> kind, den |-> typeDen(d.num, d.den),
        dvs |-> IF kind = "grace" THEN 0 ELSE d.dvs, beam |-> ""]

\* the measure is left as it is
leaveBeams(ns, pn) == ns

\* stopBeams, and the same lines of doBeams: a lone 'begin' is removed, a
\* 'continue' becomes 'end'
stopBeams(ns, pn) ==
    IF pn = 0 THEN ns
    ELSE IF ns[pn].beam = "begin" THEN [ns EXCEPT ![pn].beam = ""]
    ELSE IF ns[pn].beam = "continue" THEN [ns EXCEPT ![pn].beam = "end"]
    ELSE ns

\* doBeams (n, nt, den, lev) on the note n appended to the measure ns
doBeams(ns, pn, gb, n, nbbrk) ==
    IF n.kind \in {"chord", "grace"}
    THEN [ns |-> Append(ns, n), pn |-> pn, gb |-> gb \/ nbbrk]
    ELSE LET bbrk == gb \/ nbbrk \/ n.den < 32
             pbm == IF pn = 0 THEN "" ELSE ns[pn].beam
             ns1 == IF pbm # "" /\ bbrk THEN stopBeams(ns, pn) ELSE ns
             pn1 == IF pbm # "" /\ bbrk THEN 0 ELSE pn
             bm == IF pbm # "" /\ ~bbrk THEN "continue" ELSE "begin"
         IN IF n.den >= 32 /\ n.kind # "rest"
            THEN [ns |-> Append(ns1, [n EXCEPT !.beam = bm]),
                  pn |-> Len(ns1) + 1, gb |-> FALSE]
            ELSE [ns |-> Append(ns1, n), pn |-> pn1, gb |-> FALSE]

\* MusicXml.reset
BeamInit ==
    /\ bnotes = <<>>
    /\ prevNote = 0
    /\ grcbbrk = FALSE
    /\ beampc = "ended"

\* mkMeasure up to its first element
beamMeasure ==
    /\ beampc = "ended"
    /\ bnotes' = <<>>
    /\ beampc' = "measure"
    /\ UNCHANGED <<prevNote, grcbbrk>>
    /\ UNCHANGED notBeam

\* mkNote on a note, a rest or a grace note, after a blank or not
beamNoteActn ==
    /\ beampc = "measure"
    /\ Len(bnotes) < MaxBeamNotes
    /\ \E kind \in {"note", "rest", "grace"}, dur \in BeamLengths, nbbrk \in BOOLEAN :
          /\ kind = "grace" => dur = <<1, 1>>
          /\ LET r == doBeams(bnotes, prevNote, grcbbrk, beamNote(kind, dur), nbbrk)
             IN /\ bnotes' = r.ns
                /\ prevNote' = r.pn
                /\ grcbbrk' = r.gb
    /\ UNCHANGED beampc
    /\ UNCHANGED notBeam

\* mkNote on a chord note after the first: it has the duration of the first
beamChordNote ==
    /\ beampc = "measure"
    /\ Len(bnotes) < MaxBeamNotes
    /\ bnotes # <<>>
    /\ bnotes[Len(bnotes)].kind \in {"note", "chord"}
    /\ LET f == bnotes[Len(bnotes)]
           r == doBeams(bnotes, prevNote, grcbbrk,
                        [kind |-> "chord", den |-> f.den, dvs |-> f.dvs, beam |-> ""],
                        FALSE)
       IN /\ bnotes' = r.ns
          /\ prevNote' = r.pn
          /\ grcbbrk' = r.gb
    /\ UNCHANGED beampc
    /\ UNCHANGED notBeam

\* mkMeasure, after the last element: s.stopBeams ()
beamMeasureEnd ==
    /\ beampc = "measure"
    /\ bnotes' = stopBeams(bnotes, prevNote)
    /\ prevNote' = 0
    /\ beampc' = "ended"
    /\ UNCHANGED grcbbrk
    /\ UNCHANGED notBeam

BeamNext ==
    \/ beamMeasure
    \/ beamNoteActn
    \/ beamChordNote
    \/ beamMeasureEnd

\* the notes of the measure that carry a beam
beamed == { i \in 1 .. Len(bnotes) : bnotes[i].beam # "" }

\* the beams of the measure form complete groups
beamGroups ==
    /\ \A i \in beamed :
          bnotes[i].beam \in {"begin", "continue"} =>
              \E j \in beamed :
                  /\ j > i
                  /\ bnotes[j].beam \in {"continue", "end"}
                  /\ \A k \in beamed : ~(i < k /\ k < j)
    /\ \A j \in beamed :
          bnotes[j].beam \in {"continue", "end"} =>
              \E i \in beamed :
                  /\ i < j
                  /\ bnotes[i].beam \in {"begin", "continue"}
                  /\ \A k \in beamed : ~(i < k /\ k < j)

\* C30 as stated: in every emitted measure the beams form complete groups,
\* only notes shorter than a quarter carry a beam, and the reference to the
\* previous beamed note is empty after the measure.
C30_BeamedShorterThanQuarter ==
    beampc = "ended" =>
        /\ beamGroups
        /\ \A i \in beamed : bnotes[i].dvs < divisions
        /\ prevNote = 0

\* C30: in every emitted measure the beams form complete groups: every
\* 'begin' or 'continue' is followed, on the next beamed note of the measure,
\* by a 'continue' or an 'end', and every 'continue' or 'end' follows a
\* 'begin' or a 'continue'; only notes that are neither rests, grace notes
\* nor chord notes after the first and whose note type is an eighth or
\* shorter carry a beam, whatever their duration; and the reference to the
\* previous beamed note is empty after the measure.
C30_BeamedTypeEighthOrShorter ==
    beampc = "ended" =>
        /\ beamGroups
        /\ \A i \in beamed : bnotes[i].kind = "note" /\ bnotes[i].den >= 32
        /\ prevNote = 0

\* C30 witness: a finished measure with a group of three notes, the last of
\* them an eighth by type that lasts longer than a quarter
C30_Witness ==
    /\ beampc = "ended"
    /\ Len(bnotes) = 3
    /\ bnotes[1].beam = "begin"
    /\ bnotes[2].beam = "continue"
    /\ bnotes[3].beam = "end"
    /\ bnotes[3].dvs > divisions

(***************************************************************************)
(* Several score/staves directives in one tune: doField_I collects those   *)
(* of the header, voiceNamesAndMaps those of the voices, parseStaveDef     *)
(* reads the first one, and doField_I meets the inline ones again when the *)
(* voices are emitted.  The variables staveDefs, vdefs, names0, scoreDef,  *)
(* staves, grands, groups, accepts and gNstaves are the ones above.        *)
(***************************************************************************)
\* the largest number of directives in the header
MaxHdrDirs == 2

\* the largest number of stretches of the body
MaxBodySegs == 3

DirTexts == {"score (1 2)", "staves {*1 2}"}

\* abc_scoredef.parseString (x) [0]: the parts of the directive
scoredefParse(x) ==
    IF x = "score (1 2)" THEN <<voicegr(<<vid("1"), vid("2")>>)>>
    ELSE <<grand("{*", <<vid("1"), vid("2")>>)>>

BodySegs == [v : {"1", "2"}, inl : DirTexts \cup {""}]

\* splitHeaderVoices: the voice ids in the order of their first occurrence
RECURSIVE voiceOrder(_)
voiceOrder(b) ==
    IF b = <<>> THEN <<>>
    ELSE LET r == voiceOrder(SubSeq(b, 1, Len(b) - 1))
         IN IF b[Len(b)].v \in Range(r) THEN r ELSE Append(r, b[Len(b)].v)

\* the inline directives of the stretches, in their order
directivesOf(b) ==
    LET own == SelectSeq(b, LAMBDA g : g.inl # "")
    IN [i \in 1 .. Len(own) |-> own[i].inl]

\* the inline directives in the order of the document
docOrderDefs(b) == directivesOf(b)

\* voiceNamesAndMaps: for each voice of ps in turn, the inline directives
\* of all its measures
inlineDefs(b) ==
    flat([k \in 1 .. Len(voiceOrder(b)) |->
             directivesOf(SelectSeq(b, LAMBDA g : g.v = voiceOrder(b)[k]))])

\* the variables of the batch that a tune's directives leave alone
batchOther == <<uSyms, pageFmtDef, usrSyms, pageFmtAbc, tune, itune, doc,
                reported, before, bpc>>

DirInit ==
    /\ hdrDirs = <<>>
    /\ vbody = <<>>
    /\ dropMsgs = <<>>
    /\ dirpc = "header"

\* doHeaderField of an I: field of the header: doField_I collects it
headerDirective ==
    /\ dirpc = "header"
    /\ Len(hdrDirs) < MaxHdrDirs
    /\ \E x \in DirTexts :
          /\ staveDefs' = Append(staveDefs, x)
          /\ hdrDirs' = Append(hdrDirs, x)
    /\ UNCHANGED <<vbody, dropMsgs, dirpc>>
    /\ UNCHANGED <<staveVars, batchOther, notDir>>

\* the next stretch of the body, as the text has it
bodySegment ==
    /\ dirpc \in {"header", "body"}
    /\ Len(vbody) < MaxBodySegs
    /\ \E g \in BodySegs : vbody' = Append(vbody, g)
    /\ dirpc' = "body"
    /\ UNCHANGED <<hdrDirs, dropMsgs, staveDefs>>
    /\ UNCHANGED <<staveVars, batchOther, notDir>>

\* voiceNamesAndMaps (ps): the names of the voices and their directives
voiceNamesAndDefs ==
    /\ dirpc = "body"
    /\ "1" \in Range(voiceOrder(vbody))
    /\ \E nms \in [1 .. Len(voiceOrder(vbody)) -> {"", "A"}] :
          /\ vdefs' = [i \in DOMAIN nms |-> voiceDef(VoiceIds[i], nms[i])]
          /\ names0' = [i \in DOMAIN nms |-> voiceDef(VoiceIds[i], nms[i])]
    /\ staveDefs' = staveDefs \o inlineDefs(vbody)
    /\ dirpc' = "named"
    /\ UNCHANGED <<hdrDirs, vbody, dropMsgs>>
    /\ UNCHANGED <<scoreDef, staves, grands, groups, accepts, gNstaves, xmlParts, gpc>>
    /\ UNCHANGED <<batchOther, notDir>>

\* parseStaveDef (vdefs)
readStaveDef ==
    /\ dirpc = "named"
    /\ IF staveDefs = <<>>
       THEN UNCHANGED <<vdefs, scoreDef, staves, grands, groups, accepts, gNstaves,
                        dropMsgs>>
       ELSE LET score == scoredefParse(staveDefs[1])
                st == mkStaves(score, asDict(vdefs))
                gr == mkGrand(st.objs, st.vdefs)
            IN /\ dropMsgs' = Tail(staveDefs)
               /\ scoreDef' = score
               /\ staves' = st.xs
               /\ grands' = gr.xs
               /\ groups' = mkGroups(gr.objs)
               /\ accepts' = gr.accepts
               /\ vdefs' = asNames(gr.vdefs)
               /\ gNstaves' = [v \in Range(VoiceIds) |-> nStaves(v, gr.xs, st.xs)]
    /\ dirpc' = "staved"
    /\ UNCHANGED <<hdrDirs, vbody, staveDefs>>
    /\ UNCHANGED <<names0, xmlParts, gpc>>
    /\ UNCHANGED <<batchOther, notDir>>

\* mkPart for each voice: doFields hands every inline I: field to doField_I
emitVoices ==
    /\ dirpc = "staved"
    /\ staveDefs' = staveDefs \o inlineDefs(vbody)
    /\ dirpc' = "emitted"
    /\ UNCHANGED <<hdrDirs, vbody, dropMsgs>>
    /\ UNCHANGED <<staveVars, batchOther, notDir>>

\* parse of the next tune: s.reset ()
resetDirs ==
    /\ dirpc = "emitted"
    /\ hdrDirs' = <<>>
    /\ vbody' = <<>>
    /\ dropMsgs' = <<>>
    /\ dirpc' = "header"
    /\ staveDefs' = <<>>
    /\ vdefs' = <<>>
    /\ names0' = <<>>
    /\ scoreDef' = <<>>
    /\ staves' = <<>>
    /\ grands' = <<>>
    /\ groups' = <<>>
    /\ accepts' = <<>>
    /\ gNstaves' = [v \in Range(VoiceIds) |-> 0]
    /\ UNCHANGED <<xmlParts, gpc>>
    /\ UNCHANGED <<batchOther, notDir>>

DirNext ==
    \/ headerDirective
    \/ bodySegment
    \/ voiceNamesAndDefs
    \/ readStaveDef
    \/ emitVoices
    \/ resetDirs

\* the place of voice v among the voices of the body
voiceRank(v) == indexOf(v, voiceOrder(vbody))

\* the stretches of the body that hold a directive
withDirective == { i \in 1 .. Len(vbody) : vbody[i].inl # "" }

\* the stretch of the first inline directive: the earliest one of the
\* earliest voice that has any
firstInline ==
    CHOOSE i \in withDirective :
        \A j \in withDirective :
            \/ voiceRank(vbody[i].v) < voiceRank(vbody[j].v)
            \/ voiceRank(vbody[i].v) = voiceRank(vbody[j].v) /\ i <= j

\* the first directive of the tune: header first, then the voices in order
firstDirective ==
    IF hdrDirs # <<>> THEN hdrDirs[1] ELSE vbody[firstInline].inl

\* C31: only the first score/staves directive of a tune, the header's
\* directives first and then the inline ones voice by voice, determines
\* s.staves, s.grands and s.groups; each further directive is named in one
\* 'dropped' message, and the mappings stay as the first directive set them
\* while the voices are emitted.
C31_FirstDirectiveOnly ==
    (dirpc \in {"staved", "emitted"} /\ (hdrDirs # <<>> \/ withDirective # {})) =>
        LET score == scoredefParse(firstDirective)
            st == mkStaves(score, asDict(names0))
            gr == mkGrand(st.objs, st.vdefs)
        IN /\ staves = st.xs
           /\ grands = gr.xs
           /\ groups = mkGroups(gr.objs)
           /\ Len(dropMsgs) = Len(hdrDirs) + Cardinality(withDirective) - 1
           /\ \A x \in DirTexts :
                 Cardinality({ k \in 1 .. Len(dropMsgs) : dropMsgs[k] = x })
                     = Cardinality({ k \in 1 .. Len(hdrDirs) : hdrDirs[k] = x })
                       + Cardinality({ i \in withDirective : vbody[i].inl = x })
                       - (IF x = firstDirective THEN 1 ELSE 0)

\* C31 witness: no directive in the header, voice 2 holds the first
\* directive of the document and voice 1, the first voice, a different one
\* later; the voices have been emitted and the mapping is that of voice 1
C31_Witness ==
    /\ dirpc = "emitted"
    /\ hdrDirs = <<>>
    /\ Len(vbody) = 3
    /\ vbody[1].v = "1" /\ vbody[1].inl = ""
    /\ vbody[2].v = "2" /\ vbody[2].inl = "score (1 2)"
    /\ vbody[3].v = "1" /\ vbody[3].inl = "staves {*1 2}"
    /\ grands = <<<<"1", "2">>>>
    /\ dropMsgs = <<"score (1 2)">>

(***************************************************************************)
(* The frame of convertChord: what stands where in the measure after the   *)
(* pass, against the measure that convertBroken handed to it.              *)
(***************************************************************************)
\* the number of elements before place i + 1 if every chord left all its members
RECURSIVE memberOffset(_, _)
memberOffset(t, i) ==
    IF i = 0 THEN 0
    ELSE memberOffset(t, i - 1) + (IF t[i].name = "chord" THEN Len(t[i].objs) ELSE 1)

\* C32: every chord is replaced at its place by all its member elements in
\* source order, every other element is unchanged at its place in the same
\* order, and no chord is left in the measure.
C32_ChordReplacedByMembers ==
    mpc = "done" =>
        /\ Len(maat) = memberOffset(maatBrk, Len(maatBrk))
        /\ \A k \in 1 .. Len(maat) : maat[k].name # "chord"
        /\ \A i \in 1 .. Len(maatBrk) :
              LET x == maatBrk[i]
                  at == memberOffset(maatBrk, i - 1)
              IN IF x.name # "chord" THEN maat[at + 1] = x
                 ELSE \A k \in 1 .. Len(x.objs) : maat[at + k].name = x.objs[k].name

\* C32: every chord is replaced at its place by its member elements other
\* than rests, in source order, the notes with the duration, tie, slur ends
\* and chord flag convertChord gives them; a chord of rests only is replaced
\* by its first rest; every other element is unchanged at its place in the
\* same order, and no chord is left in the measure.
C32_ChordReplacedByNotes ==
    mpc = "done" =>
        /\ Len(maat) = flatOffset(maatBrk, Len(maatBrk))
        /\ \A k \in 1 .. Len(maat) : maat[k].name # "chord"
        /\ \A i \in 1 .. Len(maatBrk) :
              LET x == maatBrk[i]
                  ms == SelectSeq(x.objs, notRest)
                  at == flatOffset(maatBrk, i - 1)
              IN IF x.name # "chord" THEN maat[at + 1] = x
                 ELSE IF onlyRests(x) THEN maat[at + 1] = SelectSeq(x.objs, isRest)[1]
                 ELSE \A k \in 1 .. Len(ms) :
                         LET r == maat[at + k] IN
                         /\ r.name = ms[k].name
                         /\ r.grace = ms[k].grace
                         /\ r.chord = (k > 1)
                         /\ num(r.dur) * (den(x.dur) * den(ms[k].dur))
                               = den(r.dur) * (num(x.dur) * num(ms[k].dur))

\* C32 witness: a measure of a chord, a note and a second chord has been
\* flattened into three notes, the one in the middle as it was
C32_Witness ==
    /\ mpc = "done"
    /\ Len(maatBrk) = 3
    /\ maatBrk[1].name = "chord" /\ ~onlyRests(maatBrk[1])
    /\ maatBrk[2].name = "note"
    /\ maatBrk[3].name = "chord" /\ ~onlyRests(maatBrk[3])
    /\ maatBrk[3].dur # maatBrk[1].dur
    /\ Len(maat) = 3
    /\ maat[2] = maatBrk[2]

(***************************************************************************)
(* What a voice finds when mkPart has run for it.                          *)
(***************************************************************************)
\* mkPart has run and no element of the voice has been emitted yet
voiceStart == epc = "voice" /\ msr = 1 /\ nelm = 0

\* C33: every voice starts with the emitter state of a voice of its own:
\* the slur stack is empty and the overlay number 0, and nothing that an
\* earlier voice of the tune left behind, an open tie or a slur still to
\* start, is there to reach the notes of the voice.
C33_VoiceStartsFresh ==
    voiceStart =>
        /\ slurstack = <<>>
        /\ overlayVnum = 0
        /\ ties = {}
        /\ slurbeg = 0

(***************************************************************************)
(* MIDI instruments: mkNote tags a note with the instrument of its voice   *)
(* or of its percussion pitch and enters the instrument into s.midiInst;   *)
(* reduceMids, after the parts are merged, removes the instruments of a    *)
(* part that repeat a (channel, program) pair.  An instrument is a record  *)
(* [id, pid, vid, ch, prg], its id the pair of part id and voice id (or    *)
(* 'X' + midi number) that make the text 'I%s-%s'.                         *)
(***************************************************************************)
\* the largest number of voices of a tune
MaxMidVoices == 3
MaxBrkMsrs == 3
MaxSyls == 2
MaxTick == 3

\* s.midprg of a voice: channel and program, both '' without %%MIDI
MidPrgs == {<<"", "">>, <<"1", "5">>, <<"1", "7">>, <<"10", "5">>}

PartIds == {"1", "2"}

instOf(pid, v, ch, prg) == [id |-> <<pid, v>>, pid |-> pid, vid |-> v, ch |-> ch, prg |-> prg]

\* if instId not in s.midiInst: s.midiInst [instId] = (s.pid, s.vid, chan, midi)
addInst(tab, e) ==
    IF \E k \in 1 .. Len(tab) : tab[k].id = e.id THEN tab ELSE Append(tab, e)

MidInit ==
    /\ midiInst = <<>>
    /\ noteTags = <<>>
    /\ mvoices = 0
    /\ mparts = <<>>
    /\ used = [midiInst |-> <<>>, noteTags |-> <<>>]
    /\ midpc = "voices"

\* parse: mkPart for the next voice, whose notes mkNote tags; the voice has
\* one note, or one note and a percussion note of midi number 35
midVoice ==
    /\ midpc = "voices"
    /\ mvoices < MaxMidVoices
    /\ \E pid \in PartIds, prg \in MidPrgs, perc \in BOOLEAN :
          LET v == VoiceIds[mvoices + 1]
              own == instOf(pid, v, prg[1], prg[2])
              drum == instOf(pid, "X35", "10", "35")
              t1 == IF prg # <<"", "">> THEN addInst(midiInst, own) ELSE midiInst
              n1 == IF prg # <<"", "">>
                    THEN Append(noteTags, [pid |-> pid, id |-> own.id]) ELSE noteTags
          IN /\ mvoices = 0 => pid = "1"
             /\ (pid = "2" /\ "2" \notin Range(mparts)) => Range(mparts) = {"1"}
             /\ midiInst' = IF perc THEN addInst(t1, drum) ELSE t1
             /\ noteTags' = IF perc THEN Append(n1, [pid |-> pid, id |-> drum.id]) ELSE n1
             /\ mparts' = IF pid \in Range(mparts) THEN mparts ELSE Append(mparts, pid)
    /\ mvoices' = mvoices + 1
    /\ UNCHANGED <<used, midpc>>
    /\ UNCHANGED notMid

\* the loop over midiInst.values () for the part pid, from entry k on
RECURSIVE midsLoop(_, _, _, _)
midsLoop(vals, k, pid, acc) ==
    IF k > Len(vals) THEN acc
    ELSE LET e == vals[k] IN
         IF e.pid # pid THEN midsLoop(vals, k + 1, pid, acc)
         ELSE IF e.ch = "10"
              THEN midsLoop(vals, k + 1, pid, [acc EXCEPT !.hasPerc = TRUE])
              ELSE IF \E m \in 1 .. Len(acc.mids) : acc.mids[m].inst = <<e.ch, e.prg>>
                   THEN LET m == CHOOSE m \in 1 .. Len(acc.mids) :
                                     acc.mids[m].inst = <<e.ch, e.prg>>
                        IN midsLoop(vals, k + 1, pid,
                                    [acc EXCEPT !.repls = @ \cup {<<e.id, acc.mids[m].id>>},
                                                !.dels = @ \cup {e.id}])
                   ELSE midsLoop(vals, k + 1, pid,
                                 [acc EXCEPT !.mids = Append(@, [inst |-> <<e.ch, e.prg>>,
                                                                 id |-> e.id])])

\* the tags of the part pid after the loop
retag(tgs, pid, acc) ==
    IF Len(acc.mids) < 2 /\ ~acc.hasPerc
    THEN SelectSeq(tgs, LAMBDA g : g.pid # pid)
    ELSE [k \in 1 .. Len(tgs) |->
             IF tgs[k].pid = pid /\ \E r \in acc.repls : r[1] = tgs[k].id
             THEN [tgs[k] EXCEPT !.id = (CHOOSE r \in acc.repls : r[1] = tgs[k].id)[2]]
             ELSE tgs[k]]

\* reduceMids (parts, vidsnew, midiInst) from the part at place p on.  With
\* Python 3 midiInst.values () is a view of the dictionary, and the next
\* step of the loop after a del raises RuntimeError.
RECURSIVE reduceMids(_, _, _, _)
reduceMids(tab, tgs, p, valuesIsView) ==
    IF p > Len(mparts) THEN [midiInst |-> tab, noteTags |-> tgs, raised |-> FALSE]
    ELSE LET acc == midsLoop(tab, 1, mparts[p],
                             [mids |-> <<>>, repls |-> {}, dels |-> {}, hasPerc |-> FALSE])
             left == SelectSeq(tab, LAMBDA e : e.id \notin acc.dels)
         IN IF valuesIsView /\ acc.dels # {}
            THEN [midiInst |-> tab, noteTags |-> tgs, raised |-> TRUE]
            ELSE reduceMids(left, retag(tgs, mparts[p], acc), p + 1, valuesIsView)

\* parse: reduceMids (parts, vidsnew, s.midiInst)
reduceMidsActn ==
    /\ midpc = "voices"
    /\ mvoices > 0
    /\ \E valuesIsView \in BOOLEAN :
          LET r == reduceMids(midiInst, noteTags, 1, valuesIsView)
          IN /\ midiInst' = r.midiInst
             /\ noteTags' = r.noteTags
             /\ midpc' = IF r.raised THEN "raised" ELSE "reduced"
    /\ used' = [midiInst |-> midiInst, noteTags |-> noteTags]
    /\ UNCHANGED <<mvoices, mparts>>
    /\ UNCHANGED notMid

\* parse of the next tune: s.reset ()
midReset ==
    /\ midpc \in {"reduced", "raised"}
    /\ midiInst' = <<>>
    /\ noteTags' = <<>>
    /\ mvoices' = 0
    /\ mparts' = <<>>
    /\ used' = [midiInst |-> <<>>, noteTags |-> <<>>]
    /\ midpc' = "voices"
    /\ UNCHANGED notMid

MidNext ==
    \/ midVoice
    \/ reduceMidsActn
    \/ midReset

\* the instruments of a part in a table
instsOf(tab, pid) == { tab[k] : k \in { j \in 1 .. Len(tab) : tab[j].pid = pid } }

\* the (channel, program) pairs of the instruments of a part that are not
\* on the percussion channel
pairsOf(tab, pid) == { <<e.ch, e.prg>> : e \in { x \in instsOf(tab, pid) : x.ch # "10" } }

hasPercIn(tab, pid) == \E e \in instsOf(tab, pid) : e.ch = "10"

\* C34: reduceMids returns, and after it a part that used at most one
\* (channel, program) pair off the percussion channel and no percussion
\* instrument has no instrument tag on its notes; in any other part no two
\* instruments left in the table share their (channel, program) and every
\* instrument tag of a note names an instrument that is still in the table.
C34_ReducedInstruments ==
    /\ midpc # "raised"
    /\ midpc = "reduced" =>
          \A pid \in Range(mparts) :
              IF Cardinality(pairsOf(used.midiInst, pid)) <= 1 /\ ~hasPercIn(used.midiInst, pid)
              THEN \A k \in 1 .. Len(noteTags) : noteTags[k].pid # pid
              ELSE /\ \A e, f \in instsOf(midiInst, pid) :
                         (e.ch = f.ch /\ e.prg = f.prg) => e = f
                   /\ \A k \in 1 .. Len(noteTags) :
                         noteTags[k].pid = pid =>
                             \E e \in instsOf(midiInst, pid) : e.id = noteTags[k].id

(***************************************************************************)
(* mkNote: the note type and the dots.  The duration (num, den) of the     *)
(* note is scaled by 1/4 and reduced; a numerator 3 gives one dot on half  *)
(* the denominator, a numerator 7 two dots on a quarter of it; a grace     *)
(* note is not longer than an eighth; a denominator that is no key of      *)
(* typeMap is replaced by the next larger key.  The key d of typeMap       *)
(* stands for the type that lasts 4/d whole notes.                         *)
(***************************************************************************)
\* no dots at all
noDots(num0, den0) == 0

\* ndot = 0; if num == 3: ndot = 1; if num == 7: ndot = 2
noteDots(num0, den0) ==
    LET t == simplify(num0, den0 * 4)
    IN IF t[1] = 3 THEN 1 ELSE IF t[1] = 7 THEN 2 ELSE 0

\* den after the dots and the grace note limit, before the look-up
dottedDen(num0, den0, isgrace) ==
    LET t == simplify(num0, den0 * 4)
        d == IF t[1] = 3 THEN t[2] \div 2
             ELSE IF t[1] = 7 THEN t[2] \div 4 ELSE t[2]
    IN IF isgrace /\ d <= 16 THEN 32 ELSE d

\* mkNote, lines 834-851: the key of the note type, the dots and the message
noteType(num0, den0, isgrace) ==
    LET d == dottedDen(num0, den0, isgrace)
    IN [den |-> IF d \in TypeDens THEN d
                ELSE CHOOSE x \in TypeDens :
                        x > d /\ \A y \in TypeDens : y > d => x <= y,
        ndot |-> noteDots(num0, den0),
        grace |-> isgrace,
        illegal |-> d \notin TypeDens]

TypeInit == xtype = noteType(0, 1, FALSE)

\* mkNote on a note, a grace note or a rest, inside or outside a tremolo pair
mkNoteType ==
    /\ dpc = "voice"
    /\ \E kind \in DurKinds, dur \in DurLengths, tr \in BOOLEAN, isgrace \in BOOLEAN :
          LET d == noteDur(kind, dur, tr, unitLcur, mdur, python3)
          IN /\ isgrace => kind = "note"
             /\ xnt' = d
             /\ xtype' = noteType(d.num, d.den, isgrace)
    /\ UNCHANGED <<unitLcur, mdur, python3, dpc>>
    /\ UNCHANGED notType

TypeNext ==
    \/ durVoice
    \/ doFieldL
    \/ doFieldM
    \/ mkNoteType

\* the quarter-scaled reduced fraction of the duration of the last note
quarterScaled == simplify(xnt.num, xnt.den * 4)

\* the type and the dots denote the duration: 4 / den whole notes times
\* 2 - 2^-ndot, which is (2^(ndot+1) - 1) / 2^ndot
denotesDuration ==
    xnt.num * xtype.den * Pow2(xtype.ndot) = xnt.den * 4 * (Pow2(xtype.ndot + 1) - 1)

\* numerator 3: one dot on the type of half the denominator; numerator 7:
\* two dots on the type of a quarter of it; numerator 1: no dot
dotsByNumerator ==
    /\ quarterScaled[1] = 1 => (xtype.ndot = 0 /\ xtype.den = quarterScaled[2])
    /\ quarterScaled[1] = 3 => (xtype.ndot = 1 /\ 2 * xtype.den = quarterScaled[2])
    /\ quarterScaled[1] = 7 => (xtype.ndot = 2 /\ 4 * xtype.den = quarterScaled[2])

\* C35: for every duration whose quarter-scaled reduced fraction has the
\* numerator 1, 3 or 7 the emitted type and dots denote exactly that
\* duration, with one dot on half the denominator for 3, two dots on a
\* quarter of it for 7 and no dot for 1.
C35_TypeAndDotsExact ==
    (emitted /\ xnt.num > 0 /\ quarterScaled[1] \in {1, 3, 7}) =>
        (denotesDuration /\ dotsByNumerator)

\* C35: for every note that is not a grace note, whose quarter-scaled
\* reduced fraction has the numerator 1, 3 or 7 and whose denominator, halved
\* for 3 and quartered for 7, is a key of typeMap, the emitted type and dots
\* denote exactly the duration, with one dot for 3, two dots for 7 and none
\* for 1; in the other cases the type is that of the next larger key (a
\* shorter type) with the 'illegal duration' message, or an eighth or shorter
\* for a grace note, and the dots are still those of the numerator.
C35_TypeAndDotsExactForLegal ==
    (emitted /\ xnt.num > 0 /\ quarterScaled[1] \in {1, 3, 7}) =>
        /\ xtype.ndot = (IF quarterScaled[1] = 3 THEN 1
                         ELSE IF quarterScaled[1] = 7 THEN 2 ELSE 0)
        /\ (~xtype.grace /\ ~xtype.illegal) => (denotesDuration /\ dotsByNumerator)
        /\ xtype.illegal =>
              /\ xtype.den * (IF quarterScaled[1] = 3 THEN 2
                              ELSE IF quarterScaled[1] = 7 THEN 4 ELSE 1) > quarterScaled[2]
              /\ ~denotesDuration
        /\ xtype.grace => xtype.den >= 32

\* C35 witness: a note of 7/8 was emitted as a double dotted half note
C35_Witness ==
    /\ emitted
    /\ ~xtype.grace
    /\ xnt.num = 7 /\ xnt.den = 8
    /\ xtype.den = 8 /\ xtype.ndot = 2

(***************************************************************************)
(* The name of a merged part: parse takes the name, the abbreviation and   *)
(* the definition of a part from vdefs at its first voice.                 *)
(***************************************************************************)

\* the voices of an emitted part that the tune defines with a non empty name
namedIn(p) == SelectSeq(p, LAMBDA v : asDict(names0)[v].nm # "")

\* partAttr [vid] = (pname, psubnm, s.midprg) and voicedef of the first
\* voice of the part
partDef(p) == asDict(vdefs)[p[1]]

\* a part that holds more than one voice
mergedParts == { i \in 1 .. Len(xmlParts) : Len(xmlParts[i]) > 1 }

\* C36: a part merged from the voices of a voice group or of an accepted
\* grand staff has the name and the abbreviation of its first voice, in group
\* order, with a non empty name, and the voice definition of its own first
\* voice; when none of its voices has a name, the definitions of its voices
\* are as the tune gave them.
C36_GroupNameFromFirstNamed ==
    gpc = "merged" =>
        \A i \in mergedParts :
            LET p == xmlParts[i]
                named == namedIn(p)
            IN IF named = <<>>
               THEN \A v \in Range(p) : asDict(vdefs)[v] = asDict(names0)[v]
               ELSE /\ partDef(p).nm = asDict(names0)[named[1]].nm
                    /\ partDef(p).snm = asDict(names0)[named[1]].snm
                    /\ partDef(p).vdef = asDict(names0)[p[1]].vdef

\* a merged part whose first voice has no name and whose second voice is
\* named A, with the abbreviation a: the part is A, a, with the definition
\* of the first voice
C36_Witness ==
    /\ gpc = "merged"
    /\ \E i \in mergedParts :
          /\ asDict(names0)[xmlParts[i][1]].nm = ""
          /\ asDict(names0)[xmlParts[i][2]].nm = "A"
          /\ partDef(xmlParts[i]).nm = "A"
          /\ partDef(xmlParts[i]).snm = "a"
          /\ partDef(xmlParts[i]).vdef = xmlParts[i][1]

(***************************************************************************)
(* Line breaks: mkMeasure emits a print element for a line break at the    *)
(* start of a measure and sets s.linebrk for any other; mkPart merges the  *)
(* measure that follows an overlay bar into the last measure of the part.  *)
(***************************************************************************)
brkObj(name, bar) == [name |-> name, bar |-> bar]

\* measure = [bar_left] element* bar_right [linebreak], the elements being
\* a note with or without a line break before or after it
BrkMeasures ==
    { left \o mid \o <<brkObj("rbar", bar)>> \o trail :
        left \in {<<>>, <<brkObj("lbar", "|:")>>},
        mid \in {<<brkObj("note", "")>>,
                  <<brkObj("linebrk", "$"), brkObj("note", "")>>,
                  <<brkObj("note", ""), brkObj("linebrk", "$")>>},
        bar \in {"|", "&"},
        trail \in {<<>>, <<brkObj("linebrk", "$")>>} }

\* if it > 0 and t[it -1].name == 'lbar'
atStart(t, it) == it > 1 /\ t[it - 1].name = "lbar"

\* mkMeasure, the loop over t: the elements of x
brkElems(t, it) ==
    LET x == t[it]
    IN IF x.name = "note" THEN <<xNote(1, FALSE, FALSE, FALSE, 0)>>
       ELSE IF x.name = "lbar" THEN <<xOther("barline", 0)>>
       ELSE IF x.name = "linebrk" /\ atStart(t, it) THEN <<xOther("print", 0)>>
       ELSE <<>>

\* mkMeasure (i, t, lev, fieldmap): the measure, s.linebrk and overlay
mkMeasureBrk(lb, t, withFields) ==
    [maat |-> (IF withFields THEN <<xAttributes({"divisions", "key"})>> ELSE <<>>)
              \o (IF lb THEN <<xOther("print", 0)>> ELSE <<>>)
              \o flat([it \in 1 .. Len(t) |-> brkElems(t, it)]),
     linebrk |-> \E it \in 1 .. Len(t) : t[it].name = "linebrk" /\ ~atStart(t, it),
     overlay |-> \E it \in 1 .. Len(t) : t[it].name = "rbar" /\ t[it].bar = "&"]

\* mkPart: for i, maat in enumerate (maten[1:]), from the measure i on
RECURSIVE mkPartBrk(_, _, _, _, _, _, _)
mkPartBrk(maten, i, pa, src, lb, ov, vnum) ==
    IF i > Len(maten) THEN [part |-> pa, src |-> src, linebrk |-> lb]
    ELSE LET ovVnum == IF ov THEN vnum + 1 ELSE 0
             r == mkMeasureBrk(lb, maten[i], FALSE)
         IN IF ov
            THEN mkPartBrk(maten, i + 1,
                           mergePartMeasure(pa, r.maat, ovVnum, FALSE).p,
                           [src EXCEPT ![Len(src)] = Append(@, i)],
                           r.linebrk, r.overlay, ovVnum)
            ELSE mkPartBrk(maten, i + 1, Append(pa, r.maat), Append(src, <<i>>),
                           r.linebrk, r.overlay, ovVnum)

\* MusicXml.reset: s.linebrk = 0
BrkInit ==
    /\ brkMaten = <<>>
    /\ brkPart = <<>>
    /\ brkSrc = <<>>
    /\ linebrk = FALSE
    /\ brkpc = "tune"

\* the voice has one more measure
brkMeasure ==
    /\ brkpc = "tune"
    /\ Len(brkMaten) < MaxBrkMsrs
    /\ \E t \in BrkMeasures : brkMaten' = Append(brkMaten, t)
    /\ UNCHANGED <<brkPart, brkSrc, linebrk, brkpc>>
    /\ UNCHANGED notBrk

\* mkPart (maten, ...): s.linebrk = 0, the first measure with the fields of
\* the voice, then the others
mkPartLines ==
    /\ brkpc = "tune"
    /\ brkMaten # <<>>
    /\ LET r1 == mkMeasureBrk(FALSE, brkMaten[1], TRUE)
           r == mkPartBrk(brkMaten, 2, <<r1.maat>>, <<<<1>>>>, r1.linebrk,
                          r1.overlay, 0)
       IN /\ brkPart' = r.part
          /\ brkSrc' = r.src
          /\ linebrk' = r.linebrk
    /\ brkpc' = "done"
    /\ UNCHANGED brkMaten
    /\ UNCHANGED notBrk

\* the next voice
brkNextVoice ==
    /\ brkpc = "done"
    /\ brkMaten' = <<>>
    /\ brkPart' = <<>>
    /\ brkSrc' = <<>>
    /\ brkpc' = "tune"
    /\ UNCHANGED linebrk
    /\ UNCHANGED notBrk

BrkNext ==
    \/ brkMeasure
    \/ mkPartLines
    \/ brkNextVoice

\* the print elements of a measure of the part
printsOf(m) == Len(SelectSeq(m, LAMBDA e : e.tag = "print"))

\* the line breaks of a parsed measure that directly follow its left bar
breaksAtStart(t) == Cardinality({ it \in 1 .. Len(t) : t[it].name = "linebrk" /\ atStart(t, it) })

\* a parsed measure holds a line break that does not follow its left bar
breaksLater(t) == \E it \in 1 .. Len(t) : t[it].name = "linebrk" /\ ~atStart(t, it)

\* C37: a line break that directly follows the left bar of a measure gives a
\* new-system print element in that measure; any other line break gives none
\* in its own measure and exactly one, as the first element, in the next
\* measure of the voice, and the flag is clear after that unless the last
\* measure set it again.
C37_LineBreakPrinted ==
    brkpc = "done" =>
        /\ \A k \in 1 .. Len(brkPart) :
              LET pending == k > 1 /\ \E i \in Range(brkSrc[k - 1]) : breaksLater(brkMaten[i])
              IN /\ printsOf(brkPart[k])
                      = (IF pending THEN 1 ELSE 0)
                        + sumSeq([j \in 1 .. Len(brkSrc[k]) |->
                                     breaksAtStart(brkMaten[brkSrc[k][j]])])
                 /\ pending => brkPart[k][1].tag = "print"
        /\ linebrk = breaksLater(brkMaten[Len(brkMaten)])

(***************************************************************************)
(* Lyrics: alignLyr appends one object of every lyric line to each note,   *)
(* doLyr emits a lyric element for each syllable among them and keeps the  *)
(* open words in s.lyrdash.  parse aligns every block of the voice before  *)
(* mkPart emits its notes; a block only reaches the notes before it, so    *)
(* the blocks are aligned here one by one, each when its notes are due.    *)
(***************************************************************************)
lyrObj(name, dash) == [name |-> name, dash |-> dash]

\* lyr_elem = syllable | skip_note | extend_note | measure_end
LyrElems ==
    { lyrObj("syl", FALSE), lyrObj("syl", TRUE), lyrObj("skip", FALSE),
      lyrObj("ext", FALSE), lyrObj("sbar", FALSE) }

\* empty_el = pObj ('leeg', '*')
empty_el == lyrObj("leeg", FALSE)

\* the lyric lines of at most n elements
LyrLines(n) == UNION { [1 .. k -> LyrElems] : k \in 0 .. n }

\* lyr_blk = OneOrMore (lyr_fld): one line, or two with a short second one
LyrBlocks ==
    { <<l1>> : l1 \in LyrLines(MaxSyls) }
    \cup { <<l1, l2>> : l1 \in LyrLines(MaxSyls), l2 \in LyrLines(1) }

vceElem(name, plain) == [name |-> name, plain |-> plain, objs |-> <<>>]

\* the notes between two lyric blocks: notes, a right bar and a note that
\* is a member of a chord or a grace note
VceShapes ==
    { <<vceElem("note", TRUE), vceElem("rbar", FALSE), vceElem("note", TRUE),
        vceElem("note", TRUE)>>,
      <<vceElem("note", TRUE), vceElem("note", FALSE), vceElem("rest", FALSE),
        vceElem("note", TRUE), vceElem("rbar", FALSE)>> }

\* alignLyr, one line: for elem in vce, from the element j on with the
\* syllable counter i
RECURSIVE alignLine(_, _, _, _)
alignLine(vc, lyr, j, i) ==
    IF j > Len(vc) THEN vc
    ELSE LET elem == vc[j]
             takes == elem.name = "note" /\ elem.plain
             lr == IF i > Len(lyr) THEN empty_el ELSE lyr[i]
             i1 == IF takes /\ lr.name # "sbar" THEN i + 1 ELSE i
             i2 == IF elem.name = "rbar" /\ i1 <= Len(lyr) /\ lyr[i1].name = "sbar"
                   THEN i1 + 1 ELSE i1
         IN alignLine(IF takes THEN [vc EXCEPT ![j].objs = Append(@, lr)] ELSE vc,
                      lyr, j + 1, i2)

\* alignLyr (vce, lyrs): for k, lyr in enumerate (lyrs)
RECURSIVE alignLyr(_, _)
alignLyr(vc, lyrs) ==
    IF lyrs = <<>> THEN vc ELSE alignLyr(alignLine(vc, Head(lyrs), 1, 1), Tail(lyrs))

\* a doLyr that leaves the word open at its last syllable
keepOpen(dash, nr, ld) == ld \cup {nr}

\* doLyr: s.lyrdash [i] = 1 for a syllable with a dash, del s.lyrdash [i]
\* for one without
lyrdashAfter(dash, nr, ld) == IF dash THEN ld \cup {nr} ELSE ld \ {nr}

\* doLyr: type
sylType(dash, isOpen) ==
    IF dash THEN (IF isOpen THEN "middle" ELSE "begin")
    ELSE (IF isOpen THEN "end" ELSE "single")

\* doLyr (n, nt, lev): for i, lyrobj in enumerate (n.objs), from the object
\* nr on; the lyric elements and s.lyrdash
RECURSIVE doLyr(_, _, _, _)
doLyr(nobjs, nr, ld, els) ==
    IF nr > Len(nobjs) THEN [lyrdash |-> ld, els |-> els]
    ELSE IF nobjs[nr].name # "syl" THEN doLyr(nobjs, nr + 1, ld, els)
    ELSE doLyr(nobjs, nr + 1, lyrdashAfter(nobjs[nr].dash, nr, ld),
               Append(els, [number |-> nr,
                            syllabic |-> sylType(nobjs[nr].dash, nr \in ld)]))

LyrNumbers == 1 .. 2

\* MusicXml.reset: s.lyrdash = {}
LyrInit ==
    /\ lyrdash = {}
    /\ lnotes = <<>>
    /\ lastObjs = <<>>
    /\ lyrEl = <<>>
    /\ dashWas = {}
    /\ lastSyl = [nr \in LyrNumbers |-> ""]
    /\ sylWas = [nr \in LyrNumbers |-> ""]

\* parse: the next notes of the voice and the lyric block that follows them
lyrBlock ==
    /\ lnotes = <<>>
    /\ \E vc \in VceShapes, lyrs \in LyrBlocks : lnotes' = alignLyr(vc, lyrs)
    /\ UNCHANGED <<lyrdash, lastObjs, lyrEl, dashWas, lastSyl, sylWas>>
    /\ UNCHANGED notLyr

\* mkNote (n, lev): if n.objs: s.doLyr (n, nt, lev + 1)
mkNoteLyr ==
    /\ lnotes # <<>>
    /\ LET n == Head(lnotes)
           r == IF n.name \in {"note", "rest"} /\ n.objs # <<>>
                THEN doLyr(n.objs, 1, lyrdash, <<>>)
                ELSE [lyrdash |-> lyrdash, els |-> <<>>]
       IN /\ lyrdash' = r.lyrdash
          /\ lyrEl' = r.els
          /\ lastSyl' = [nr \in LyrNumbers |->
                           IF \E e \in Range(r.els) : e.number = nr
                           THEN (CHOOSE e \in Range(r.els) : e.number = nr).syllabic
                           ELSE lastSyl[nr]]
    /\ dashWas' = lyrdash
    /\ sylWas' = lastSyl
    /\ lastObjs' = Head(lnotes).objs
    /\ lnotes' = Tail(lnotes)
    /\ UNCHANGED notLyr

\* mkPart: s.lyrdash = {}, the next voice
mkPartLyr ==
    /\ lnotes = <<>>
    /\ lyrdash' = {}
    /\ lastObjs' = <<>>
    /\ UNCHANGED lnotes
    /\ lyrEl' = <<>>
    /\ dashWas' = {}
    /\ lastSyl' = [nr \in LyrNumbers |-> ""]
    /\ sylWas' = [nr \in LyrNumbers |-> ""]
    /\ UNCHANGED notLyr

LyrNext ==
    \/ lyrBlock
    \/ mkNoteLyr
    \/ mkPartLyr

\* the syllabic of the lyric number nr on the last note, "" if it has none
sylOn(nr) ==
    IF \E e \in Range(lyrEl) : e.number = nr
    THEN (CHOOSE e \in Range(lyrEl) : e.number = nr).syllabic
    ELSE ""

\* the last note carries a syllable of the line nr
hasSyl(nr) ==
    /\ nr <= Len(lastObjs)
    /\ lastObjs[nr].name = "syl"

\* C38: in every lyric line of a voice a begin or a single only follows an
\* end, a single or nothing, and a middle or an end only follows a begin or
\* a middle; a note without a syllable of the line (skipped, extended, past
\* the end of the line or held back by a bar) gets no lyric element of the
\* line and leaves the open words as they were.
C38_SyllabicWellFormed ==
    \A nr \in LyrNumbers :
        /\ sylOn(nr) \in {"begin", "single"} => sylWas[nr] \in {"", "end", "single"}
        /\ sylOn(nr) \in {"middle", "end"} => sylWas[nr] \in {"begin", "middle"}
        /\ hasSyl(nr) <=> sylOn(nr) # ""
        /\ ~hasSyl(nr) => (nr \in lyrdash <=> nr \in dashWas)
        /\ nr \in lyrdash <=> lastSyl[nr] \in {"begin", "middle"}

\* a note ends the word of the first line that an earlier note began, and
\* has nothing of the second line, which had a word of its own before
C38_Witness ==
    /\ sylOn(1) = "end" /\ sylWas[1] = "begin" /\ 1 \notin lyrdash
    /\ lastObjs = <<lyrObj("syl", FALSE), empty_el>>
    /\ sylOn(2) = "" /\ lastSyl[2] = "single"

(***************************************************************************)
(* FluidSynth2Player: Load, Play, Pause and Stop on a player of the        *)
(* FluidSynth library.  The player of the library is its status, its       *)
(* current tick and whether a file was added; the file has MaxTick ticks.  *)
(***************************************************************************)
PlReady == 0
PlPlaying == 1
PlFinished == 2

\* the player of the library: status, tick, playlist
flPlayer(st, tk, pl) == [status |-> st, tick |-> tk, playlist |-> pl]

\* F.new_fluid_player (self.synth)
new_fluid_player == flPlayer(PlReady, 0, FALSE)

\* F.fluid_player_play: nothing when it plays already or holds no file
fluid_player_play(p) ==
    IF p.status = PlPlaying \/ ~p.playlist THEN p ELSE [p EXCEPT !.status = PlPlaying]

\* F.fluid_player_stop: the playback halts where it is
fluid_player_stop(p) == [p EXCEPT !.status = PlFinished]

\* F.fluid_player_seek
fluid_player_seek(p, pos_in_ticks) ==
    IF pos_in_ticks \in 0 .. MaxTick THEN [p EXCEPT !.tick = pos_in_ticks] ELSE p

\* the playback of n ticks
RECURSIVE playTicks(_, _)
playTicks(p, n) ==
    IF n = 0 \/ p.status # PlPlaying THEN p
    ELSE IF p.tick + 1 >= MaxTick
         THEN [p EXCEPT !.tick = MaxTick, !.status = PlFinished]
         ELSE playTicks([p EXCEPT !.tick = @ + 1], n - 1)

thePlayer == flPlayer(plStatus, plTick, playlist)

\* is_playing: F.fluid_player_get_status (self.player) == 1
is_playing == plStatus = PlPlaying

\* is_paused: self.pause_position > 0
is_paused == pause_position > 0

\* FluidSynth2Player.__init__
PlayerInit ==
    /\ pause_position = 0
    /\ plStatus = PlReady
    /\ plTick = 0
    /\ playlist = FALSE
    /\ lastCall = ""
    /\ prevCall = ""
    /\ pausedAt = 0
    /\ seekPos = 0

setPlayer(p) ==
    /\ plStatus' = p.status
    /\ plTick' = p.tick
    /\ playlist' = p.playlist

returned(name) ==
    /\ lastCall' = name
    /\ prevCall' = lastCall

\* Load (path): reset, then the file is added and played for a tenth of a
\* second, or not when it does not exist or cannot be added
Load ==
    /\ \E exists \in BOOLEAN, added \in BOOLEAN, slept \in 0 .. 1 :
          IF exists /\ added
          THEN LET p == fluid_player_stop(playTicks(fluid_player_play(
                            [new_fluid_player EXCEPT !.playlist = TRUE]), slept))
               IN /\ setPlayer(p)
                  /\ pause_position' = p.tick
          ELSE /\ setPlayer(new_fluid_player)
               /\ pause_position' = 0
    /\ returned("Load")
    /\ UNCHANGED <<pausedAt, seekPos>>
    /\ UNCHANGED notPlayer

\* Play
Play ==
    /\ setPlayer(fluid_player_play(fluid_player_seek(thePlayer, pause_position)))
    /\ seekPos' = pause_position
    /\ pause_position' = 0
    /\ returned("Play")
    /\ UNCHANGED pausedAt
    /\ UNCHANGED notPlayer

\* Stop: if self.is_playing
Stop ==
    /\ IF is_playing
       THEN /\ setPlayer(fluid_player_stop(thePlayer))
            /\ pause_position' = 0
       ELSE UNCHANGED <<plStatus, plTick, playlist, pause_position>>
    /\ returned("Stop")
    /\ UNCHANGED <<pausedAt, seekPos>>
    /\ UNCHANGED notPlayer

\* Pause
Pause ==
    /\ setPlayer(fluid_player_stop(thePlayer))
    /\ pause_position' = plTick
    /\ pausedAt' = plTick
    /\ returned("Pause")
    /\ UNCHANGED seekPos
    /\ UNCHANGED notPlayer

\* the audio thread plays the next tick
playerTick ==
    /\ is_playing
    /\ setPlayer(playTicks(thePlayer, 1))
    /\ UNCHANGED <<pause_position, lastCall, prevCall, pausedAt, seekPos>>
    /\ UNCHANGED notPlayer

PlayerNext ==
    \/ Load
    \/ Play
    \/ Stop
    \/ Pause
    \/ playerTick

\* C39: once Stop has returned the pause position is 0 and is_paused is
\* false; a Play that directly follows a Pause has sought to the tick at
\* which Pause was called and leaves is_paused false.
C39_StopResetsPlayResumes ==
    /\ lastCall = "Stop" => pause_position = 0 /\ ~is_paused
    /\ lastCall = "Play" /\ prevCall = "Pause" => seekPos = pausedAt /\ ~is_paused

(***************************************************************************)
(* Specifications: one per component, the other components left idle.      *)
(***************************************************************************)
\* every component starts in its initial state
Init ==
    /\ MaatInit
    /\ EmitInit
    /\ MergeInit
    /\ PartInit
    /\ BatchInit
    /\ ParseInit
    /\ DurInit
    /\ FieldInit
    /\ SplitInit
    /\ PitchInit
    /\ TupInit
    /\ VoltaInit
    /\ StaveInit
    /\ PercInit
    /\ SlurInit
    /\ BeamInit
    /\ DirInit
    /\ MidInit
    /\ TypeInit
    /\ BrkInit
    /\ LyrInit
    /\ PlayerInit

MaatSpec == Init /\ [][MaatNext]_vars

EmitSpec == Init /\ [][EmitNext]_vars

MergeSpec == Init /\ [][MergeNext]_vars

PartSpec == Init /\ [][PartNext]_vars

BatchSpec == Init /\ [][BatchNext]_vars

ParseSpec == Init /\ [][ParseNext]_vars

DurSpec == Init /\ [][DurNext]_vars

FieldSpec == Init /\ [][FieldNext]_vars

SplitSpec == Init /\ [][SplitNext]_vars

BrokenSpec == Init /\ [][BrokenNext]_vars

PitchSpec == Init /\ [][PitchNext]_vars

TupSpec == Init /\ [][TupNext]_vars

ChordSpec == Init /\ [][ChordNext]_vars

VoltaSpec == Init /\ [][VoltaNext]_vars

StaveSpec == Init /\ [][StaveNext]_vars

GrandSpec == Init /\ [][GrandNext]_vars

PercSpec == Init /\ [][PercNext]_vars

SlurSpec == Init /\ [][SlurNext]_vars

BeamSpec == Init /\ [][BeamNext]_vars

DirSpec == Init /\ [][DirNext]_vars

MidSpec == Init /\ [][MidNext]_vars

TypeSpec == Init /\ [][TypeNext]_vars

BrkSpec == Init /\ [][BrkNext]_vars

LyrSpec == Init /\ [][LyrNext]_vars

PlayerSpec == Init /\ [][PlayerNext]_vars

====
